---------------------------- MODULE Spec2Model ----------------------------
(***************************************************************************)
(* Face-to-object mapping, calibration and render loop of Mask-up.         *)
(*                                                                         *)
(* Ten specifications are described:                                       *)
(*   Spec         Filter3DOverlay (scene lifecycle, filter models, render  *)
(*                loop) driven by App's selection / calibration state;     *)
(*   SpecDetect   the useFaceDetection hook (interval, reentrancy guard);  *)
(*   SpecCalib    FilterCalibration, App.handlePositionChange and the      *)
(*                calibration composition of the render loop;              *)
(*   SpecCompose  the calibration composition as a function of the         *)
(*                adjustments a caller of Filter3DOverlay passes.          *)
(*   SpecPose     mapFaceTo3D and getFilterPosition as functions of the    *)
(*                landmarks, the dimensions and the mirror flag;           *)
(*   SpecFail     Filter3DOverlay when a model factory or the transform    *)
(*                computation of a tick throws;                            *)
(*   SpecThrottle the throttle utility of utils/modelLoader;               *)
(*   SpecLoop     the createAnimationLoop utility of utils/modelLoader;    *)
(*   SpecPanel    FilterCalibration when several handler calls are         *)
(*                batched into one re-render;                              *)
(*   SpecCanvas   FilterOverlay, the 2D overlay.                           *)
(*                                                                         *)
(* JavaScript numbers are modelled as exact rationals <<n, d>> extended    *)
(* with the IEEE specials (d = 0): <<1,0>> = +Infinity, <<-1,0>> =         *)
(* -Infinity, <<0,0>> = NaN.  Floating-point rounding is not modelled.     *)
(*                                                                         *)
(* React is modelled at the granularity of a commit: a state or prop       *)
(* change, the re-render it causes and the flush of the effects whose      *)
(* dependencies changed (all cleanups in declaration order, then all       *)
(* bodies in declaration order) form one step.                             *)
(***************************************************************************)
EXTENDS Integers, Sequences, FiniteSets, TLC

(***************************************************************************)
(* Numbers                                                                 *)
(***************************************************************************)
Abs(n) == IF n < 0 THEN -n ELSE n

Sign(n) == IF n < 0 THEN -1 ELSE IF n > 0 THEN 1 ELSE 0

RECURSIVE GCD(_, _)
GCD(a, b) == IF b = 0 THEN a ELSE GCD(b, a % b)

\* the canonical form of n/d: d > 0 and gcd 1, or one of the specials (d = 0)
Norm(n, d) ==
  IF d = 0 THEN <<Sign(n), 0>>
  ELSE LET g == GCD(Abs(n), Abs(d))
       IN  <<(Sign(d) * n) \div g, Abs(d) \div g>>

R(n) == <<n, 1>>

Zero == <<0, 1>>

One == <<1, 1>>

NaN == <<0, 0>>

IsNaN(a) == a = NaN

IsFinite(a) == a[2] # 0

RNeg(a) == <<-a[1], a[2]>>

RAdd(a, b) ==
  IF a[2] = 0 /\ b[2] = 0
  THEN (IF a = b THEN a ELSE NaN)
  ELSE Norm(a[1] * b[2] + b[1] * a[2], a[2] * b[2])

RSub(a, b) == RAdd(a, RNeg(b))

RMul(a, b) == Norm(a[1] * b[1], a[2] * b[2])

RDiv(a, b) == Norm(a[1] * b[2], a[2] * b[1])

RAbs(a) == <<Abs(a[1]), a[2]>>

RLess(a, b) ==
  /\ ~IsNaN(a)
  /\ ~IsNaN(b)
  /\ a # b
  /\ IF IsFinite(a) /\ IsFinite(b) THEN a[1] * b[2] < b[1] * a[2]
     ELSE IF ~IsFinite(a) THEN a[1] < 0
     ELSE b[1] > 0

\* JavaScript truthiness of a number: 0 and NaN are falsy
Truthy(a) == a # Zero /\ ~IsNaN(a)

OrElse_Left(a, b) == a

\* a || b on numbers
OrElse(a, b) == IF Truthy(a) THEN a ELSE b

(***************************************************************************)
(* Angles.  An angle is rad + pi * PI + atan2(at[1], at[2]) radians; the   *)
(* atan2 term is kept symbolic, and is <<0, 1>> (= 0) when absent.         *)
(* Multiples of PI/4 are the only angles with both a rational tangent and  *)
(* a rational multiple of PI, so they are folded into the pi term.         *)
(***************************************************************************)
NoAtan == <<0, 1>>

Angle(rad, pi, at) == [rad |-> rad, pi |-> pi, at |-> at]

AngleZero == Angle(Zero, Zero, NoAtan)

AngleNaN == Angle(NaN, Zero, NoAtan)

\* Math.atan2(dy, dx) for integer dy, dx
Atan2(dy, dx) ==
  IF dy = 0 THEN (IF dx >= 0 THEN AngleZero ELSE Angle(Zero, One, NoAtan))
  ELSE IF dx = 0 THEN Angle(Zero, <<Sign(dy), 2>>, NoAtan)
  ELSE IF Abs(dy) = Abs(dx)
       THEN Angle(Zero, <<Sign(dy) * (IF dx > 0 THEN 1 ELSE 3), 4>>, NoAtan)
  ELSE LET g == GCD(Abs(dy), Abs(dx))
       IN  Angle(Zero, Zero, <<dy \div g, dx \div g>>)

\* x * Math.PI * c for a rational x and a rational c
TimesPi(x, c) == Angle(Zero, RMul(x, c), NoAtan)

AngleNeg_Same(a) == a

\* -a
AngleNeg(a) == Angle(RNeg(a.rad), RNeg(a.pi), <<-a.at[1], a.at[2]>>)

AngleIsNaN(a) == IsNaN(a.rad) \/ IsNaN(a.pi)

AngleTruthy(a) == a # AngleZero /\ ~AngleIsNaN(a)

\* angle + number (radians)
AngleAdd(a, r) == Angle(RAdd(a.rad, r), a.pi, a.at)


(***************************************************************************)
(* Program constants                                                       *)
(***************************************************************************)
\* constants.ts FILTERS: the ids of the available filters, in order
FILTERS == <<"glasses", "hat", "beard", "mustache">>

\* detection.detection.score < 0.7, in hundredths
ScoreThreshold == 70

\* useFaceDetection: MIN_DETECTION_CONFIDENCE = 0.7 (hundredths), MAX_FACES = 1
MIN_DETECTION_CONFIDENCE == 70

MAX_FACES == 1

\* baseScale = faceWidth / 200
ReferenceFaceWidth == 200

(***************************************************************************)
(* Bounds of the model                                                     *)
(***************************************************************************)
\* how many of the FILTERS the user toggles
MaxKinds == 2

\* how many scenes (and renderers) are created in a run
MaxScenes == 2

\* how many mesh groups are created in a run
MaxGroups == 2

\* the `delay` throttle is called with, in ms
Delay == 3

\* the clock of the throttle runs from Delay to MaxTime
MaxTime == 7

Min(a, b) == IF a < b THEN a ELSE b

Kinds == {FILTERS[i] : i \in 1..Min(MaxKinds, Len(FILTERS))}

(***************************************************************************)
(* Landmarks, detections and viewport geometry (inputs)                    *)
(***************************************************************************)
Pt(x, y) == [x |-> x, y |-> y]

\* level eyes, the scenario of the design: eye-outer points (100,150), (200,150),
\* nose tip (150,160).  upperLip (the top of the upper lip, point 51 of the 68)
\* is among the points face-api reports; mapFaceTo3D does not read it.
FaceLevel ==
  [leftEye |-> Pt(100, 150), rightEye |-> Pt(200, 150),
   noseTip |-> Pt(150, 160), noseTop |-> Pt(150, 140),
   chin |-> Pt(150, 250), forehead |-> Pt(150, 100),
   leftJaw |-> Pt(90, 170), rightJaw |-> Pt(210, 170),
   upperLip |-> Pt(150, 180)]

\* a head tilted and turned
FaceTilted ==
  [leftEye |-> Pt(300, 200), rightEye |-> Pt(380, 240),
   noseTip |-> Pt(350, 260), noseTop |-> Pt(345, 225),
   chin |-> Pt(330, 330), forehead |-> Pt(360, 170),
   leftJaw |-> Pt(290, 230), rightJaw |-> Pt(400, 270),
   upperLip |-> Pt(345, 285)]

Det(score, landmarks) == [score |-> score, landmarks |-> landmarks]

\* the detections prop: null or a list
NullDetections == [isNull |-> TRUE, list |-> <<>>]

Dets(list) == [isNull |-> FALSE, list |-> list]

\* the lists passed as the detections prop in Spec: an empty one, one whose
\* detection scores below 0.7, one with two detections that score 0.7 or more
DetectionInputs ==
  { Dets(<<>>),
    Dets(<<Det(60, FaceLevel)>>),
    Dets(<<Det(60, FaceTilted), Det(70, FaceLevel), Det(80, FaceTilted)>>) }

Dim(w, h, vw, vh) == [width |-> w, height |-> h, videoWidth |-> vw, videoHeight |-> vh]

\* useState initial value of dimensions
ZeroDimensions == Dim(0, 0, 0, 0)

\* what updateDimensions may read from the video element: <<videoWidth, videoHeight>>
VideoSizes == {<<0, 0>>, <<640, 480>>}

\* ... and from getBoundingClientRect: <<width, height>>
DisplaySizes == {<<0, 0>>, <<640, 480>>, <<320, 240>>}

(***************************************************************************)
(* mapFaceTo3D                                                             *)
(***************************************************************************)
MapFaceTo3D(landmarks, dims, isVideoMirroredState) ==
  LET leftEye == landmarks.leftEye
      rightEye == landmarks.rightEye
      noseTip == landmarks.noseTip
      chin == landmarks.chin
      forehead == landmarks.forehead
      leftJaw == landmarks.leftJaw
      rightJaw == landmarks.rightJaw
      \* dimensions.videoWidth || dimensions.width
      videoWidth == IF dims.videoWidth # 0 THEN dims.videoWidth ELSE dims.width
      videoHeight == IF dims.videoHeight # 0 THEN dims.videoHeight ELSE dims.height
      faceCenterX == RSub(RMul(RDiv(R(noseTip.x), R(videoWidth)), R(2)), One)
      faceCenterY == RNeg(RSub(RMul(RDiv(R(noseTip.y), R(videoHeight)), R(2)), One))
      faceWidth == Abs(rightEye.x - leftEye.x)
      faceHeight == Abs(chin.y - forehead.y)
      jawWidth == Abs(rightJaw.x - leftJaw.x)
      baseScale == RDiv(R(faceWidth), R(ReferenceFaceWidth))
      roll0 == Atan2(rightEye.y - leftEye.y, rightEye.x - leftEye.x)
      rollAngle == IF isVideoMirroredState THEN AngleNeg(roll0) ELSE roll0
      eyeCenter == RDiv(R(leftEye.x + rightEye.x), R(2))
      faceCenter == R(noseTip.x)
      jawCenter == RDiv(R(leftJaw.x + rightJaw.x), R(2))
      faceAsymmetry == RDiv(RSub(eyeCenter, faceCenter), R(faceWidth))
      jawAsymmetry == RDiv(RSub(jawCenter, faceCenter), R(jawWidth))
      avgAsymmetry == RDiv(RAdd(faceAsymmetry, jawAsymmetry), R(2))
      yaw0 == TimesPi(avgAsymmetry, <<3, 10>>)
      yawAngle == IF isVideoMirroredState THEN AngleNeg(yaw0) ELSE yaw0
      eyeLineY == RDiv(R(leftEye.y + rightEye.y), R(2))
      noseOffsetY == RSub(R(noseTip.y), eyeLineY)
      normalNoseOffset == RMul(R(faceHeight), <<3, 10>>)
      pitchFactor == RDiv(RSub(noseOffsetY, normalNoseOffset), R(faceHeight))
      pitchAngle == TimesPi(pitchFactor, <<1, 5>>)
  IN  [center |-> [x |-> faceCenterX, y |-> faceCenterY, z |-> Zero],
       scale |-> baseScale,
       rotation |-> [x |-> pitchAngle, y |-> yawAngle, z |-> rollAngle],
       landmarks |-> [leftEye |-> leftEye, rightEye |-> rightEye,
                      noseTip |-> noseTip, chin |-> chin, forehead |-> forehead,
                      faceHeight |-> faceHeight],
       isVideoMirrored |-> isVideoMirroredState,
       videoWidth |-> videoWidth,
       videoHeight |-> videoHeight]

\* -((py / videoHeight) * 2 - 1) for a rational pixel ordinate py
NormY(py, videoHeight) == RNeg(RSub(RMul(RDiv(py, R(videoHeight)), R(2)), One))

(***************************************************************************)
(* getFilterPosition                                                       *)
(***************************************************************************)
GetFilterPosition(filterId, faceData) ==
  LET center == faceData.center
      scale == faceData.scale
      rotation == faceData.rotation
      landmarks == faceData.landmarks
      videoWidth == faceData.videoWidth
      videoHeight == faceData.videoHeight
  IN  CASE filterId = "glasses" ->
             LET eyeCenterX == RDiv(R(landmarks.leftEye.x + landmarks.rightEye.x), R(2))
                 eyeCenterY == RDiv(R(landmarks.leftEye.y + landmarks.rightEye.y), R(2))
             IN  [x |-> RSub(RMul(RDiv(eyeCenterX, R(videoWidth)), R(2)), One),
                  y |-> NormY(eyeCenterY, videoHeight),
                  z |-> <<1, 100>>,
                  scale |-> RMul(scale, <<4, 5>>),
                  rotation |-> rotation]
        [] filterId = "hat" ->
             LET hatY == RSub(R(landmarks.forehead.y),
                              RMul(R(landmarks.faceHeight), <<3, 5>>))
             IN  [x |-> center.x,
                  y |-> NormY(hatY, videoHeight),
                  z |-> <<-1, 50>>,
                  scale |-> RMul(scale, <<6, 5>>),
                  rotation |-> rotation]
        [] filterId = "beard" ->
             LET beardY == RAdd(R(landmarks.chin.y),
                                RMul(R(landmarks.faceHeight), <<1, 20>>))
             IN  [x |-> center.x,
                  y |-> NormY(beardY, videoHeight),
                  z |-> <<1, 100>>,
                  scale |-> RMul(scale, One),
                  rotation |-> rotation]
        [] filterId = "mustache" ->
             LET mustacheY == RAdd(R(landmarks.noseTip.y),
                                   RMul(R(landmarks.faceHeight), <<1, 5>>))
             IN  [x |-> center.x,
                  y |-> NormY(mustacheY, videoHeight),
                  z |-> <<1, 50>>,
                  scale |-> RMul(scale, <<3, 5>>),
                  rotation |-> rotation]
        [] OTHER ->
             [x |-> center.x, y |-> center.y, z |-> center.z,
              scale |-> scale, rotation |-> rotation]

(***************************************************************************)
(* Calibration adjustments and their composition (animate, lines 470-482)  *)
(***************************************************************************)
AdjFields == {"x", "y", "z", "scale", "rotX", "rotY", "rotZ"}

\* {} : no property at all
EmptyAdjustments == [f \in {} |-> Zero]

\* FilterCalibration's reset value, also its initial value for every kind
IdentityAdjustments ==
  [x |-> Zero, y |-> Zero, z |-> Zero, scale |-> One,
   rotX |-> Zero, rotY |-> Zero, rotZ |-> Zero]

\* positionAdjustments[filter.id] || {}
AdjustmentsFor(posAdj, filterId) ==
  IF filterId \in DOMAIN posAdj THEN posAdj[filterId] ELSE EmptyAdjustments

\* adjustments.f || dflt  (a missing property reads undefined, which is falsy)
AdjOr(adjustments, f, dflt) ==
  IF f \in DOMAIN adjustments THEN OrElse(adjustments[f], dflt) ELSE dflt

\* filterPos.rotation.c || 0
RotOr(a) == IF AngleTruthy(a) THEN a ELSE AngleZero

ComposeScale_NoDefault(filterPos, adjustments) ==
  RMul(filterPos.scale,
       IF "scale" \in DOMAIN adjustments THEN adjustments["scale"] ELSE NaN)

\* filterPos.scale * (adjustments.scale || 1)
ComposeScale(filterPos, adjustments) ==
  RMul(filterPos.scale, AdjOr(adjustments, "scale", One))

\* const finalPosition = { x, y, z, scale, rotation }
FinalPosition(filterPos, adjustments) ==
  [x |-> RAdd(filterPos.x, AdjOr(adjustments, "x", Zero)),
   y |-> RAdd(filterPos.y, AdjOr(adjustments, "y", Zero)),
   z |-> RAdd(filterPos.z, AdjOr(adjustments, "z", Zero)),
   scale |-> ComposeScale(filterPos, adjustments),
   rotation |->
     [x |-> AngleAdd(RotOr(filterPos.rotation.x), AdjOr(adjustments, "rotX", Zero)),
      y |-> AngleAdd(RotOr(filterPos.rotation.y), AdjOr(adjustments, "rotY", Zero)),
      z |-> AngleAdd(RotOr(filterPos.rotation.z), AdjOr(adjustments, "rotZ", Zero))]]

(***************************************************************************)
(* State                                                                   *)
(***************************************************************************)
VARIABLES
  \* App state, passed to Filter3DOverlay as props
  selectedFilters,      \* Filter[] (each filter is represented by its id)
  positionAdjustments,  \* Record<string, any>: kind -> adjustments
  debug,                \* debugMode
  detections,           \* the list published by useFaceDetection, or null
  isVideoMirrored,      \* prop of Filter3DOverlay (default true)
  \* the Filter3DOverlay instance
  mounted,              \* the component is mounted (mountRef.current is its div)
  dimensions,           \* useState: {width, height, videoWidth, videoHeight}
  sceneRef, rendererRef, cameraRef,   \* 0 is null, else an index
  debugGroupRef,        \* 0 is null, else the scene the debug group was made for
  filtersRef,           \* Map<string, THREE.Group>: kind -> group index
  animationRef,         \* the last requestAnimationFrame id
  initCleanup,          \* <<>> or <<[renderer, scene]>>: cleanup of the scene effect
  animCleanup,          \* the animation effect returned a cleanup
  \* the objects created so far
  scenes,               \* scene index -> its children
  renderers,            \* renderer index -> [disposed, canvasIn, size]
  cameras,              \* camera index -> [aspect]
  groups,               \* group index -> [kind, visible, position, rotation, scale]
  debugMarker,          \* <<>> or <<center>>: the sphere of the debug group
  \* the browser
  pendingFrames,        \* requested animation frames: [id, and animate's closure]
  rendered,             \* <<what renderer.render drew>> after animate, else <<>>
  \* useFaceDetection
  hookMounted, enabled, videoElement,
  isModelLoaded, isModelLoading, loadError, hookDetections,
  detectionInterval,    \* ref: 0 is null, else an interval id
  isRunningRef,         \* ref: the reentrancy flag
  intervals,            \* active intervals: [id, and detectFaces' closure]
  inFlight,             \* detectFaces runs awaiting their result
  loadsInFlight,        \* how many loadModels runs await their result
  intervalCleanup,      \* the interval effect returned a cleanup
  hop,                  \* the last step of the hook
  \* FilterCalibration
  adjustments,          \* useState: kind -> adjustments
  panelAdjustments,     \* the adjustments value handleSliderChange closes over
  composed,             \* <<>> or <<[kind, filterPos, finalPosition]>>
  cop,                  \* the last step of the calibration panel
  \* mapFaceTo3D and getFilterPosition applied to inputs of the caller's choice
  resolved,             \* <<>> or <<[landmarks, dimensions, isVideoMirrored,
                        \*            faceData, positions]>>: the last application
  resolvedBefore,       \* the application before that one
  \* errors
  uncaught,             \* the last error that no handler of the program caught
  \* throttle (utils/modelLoader.tsx)
  now,                  \* Date.now()
  lastCall,             \* let lastCall
  timeoutId,            \* let timeoutId: 0 is null
  timeouts,             \* the timeouts window.setTimeout holds: [id, due, args]
  invoked,              \* the calls of callback so far: [at, args]
  \* createAnimationLoop (utils/modelLoader.tsx)
  isRunning,            \* let isRunning
  animationFrameId,     \* let animationFrameId: 0 is null
  loopFrames,           \* the requests of `loop` the browser holds: [id]
  lop,                  \* the last step of the loop
  \* FilterOverlay (the 2D overlay)
  canvasDimensions,     \* useState: {width, height}
  filterImagesRef,      \* Map<string, HTMLImageElement>: the kinds it has
  imageLoads,           \* the kinds whose image is being loaded
  canvasDrawn           \* what the canvas shows: [kind, landmarks]

appVars == <<selectedFilters, positionAdjustments, debug, detections, isVideoMirrored>>

overlayVars ==
  <<mounted, dimensions, sceneRef, rendererRef, cameraRef, debugGroupRef,
    filtersRef, animationRef, initCleanup, animCleanup, scenes, renderers,
    cameras, groups, debugMarker, pendingFrames, rendered>>

hookVars ==
  <<hookMounted, enabled, videoElement, isModelLoaded, isModelLoading, loadError,
    hookDetections, detectionInterval, isRunningRef, intervals, inFlight,
    loadsInFlight, intervalCleanup, hop>>

calibVars == <<adjustments, panelAdjustments, composed, cop>>

poseVars == <<resolved, resolvedBefore>>

failVars == <<uncaught>>

throttleVars == <<now, lastCall, timeoutId, timeouts, invoked>>

loopVars == <<isRunning, animationFrameId, loopFrames, lop>>

canvasVars == <<canvasDimensions, filterImagesRef, imageLoads, canvasDrawn>>

utilVars == <<poseVars, failVars, throttleVars, loopVars, canvasVars>>

vars == <<appVars, overlayVars, hookVars, calibVars, utilVars>>

(***************************************************************************)
(* App: handleFilterToggle                                                *)
(***************************************************************************)
\* prev.some((f) => f.id === filter.id)
IsSelected(prev, filter) == \E i \in 1..Len(prev) : prev[i] = filter

ToggleFilter_NoCheck(prev, filter) == Append(prev, filter)

\* the updater passed to setSelectedFilters
ToggleFilter(prev, filter) ==
  IF IsSelected(prev, filter)
  THEN LET Keep(f) == f # filter IN SelectSeq(prev, Keep)
  ELSE Append(prev, filter)

\* the updater passed to setPositionAdjustments: {...prev, [filterId]: adjustments}
PositionChange_SpreadLast(prev, filterId, adj) ==
  [k \in DOMAIN prev \cup {filterId} |-> IF k \in DOMAIN prev THEN prev[k] ELSE adj]

PositionChange_NoSpread(prev, filterId, adj) == [k \in {filterId} |-> adj]

PositionChange(prev, filterId, adj) ==
  [k \in DOMAIN prev \cup {filterId} |-> IF k = filterId THEN adj ELSE prev[k]]

NoAdjustments == [k \in {} |-> EmptyAdjustments]

(***************************************************************************)
(* Filter3DOverlay: the effects, as functions of the instance state `st`   *)
(* (a record of the refs and of the objects they reach)                    *)
(***************************************************************************)
\* FilterModels.createLighting(): ambient, key and fill light
Lights == {<<"light", 1>>, <<"light", 2>>, <<"light", 3>>}

DebugObject == <<"debug", 0>>

GroupObject(g) == <<"group", g>>

\* a THREE.Group as FilterModels.createX() returns it
NewGroup(kind) ==
  [kind |-> kind, visible |-> TRUE,
   position |-> [x |-> Zero, y |-> Zero, z |-> Zero],
   rotation |-> [x |-> AngleZero, y |-> AngleZero, z |-> AngleZero],
   scale |-> One]

\* the cleanup returned by the scene effect (lines 116-126)
SceneCleanup(st, mountRefCurrent) ==
  IF st.initCleanup = <<>> THEN st
  ELSE LET c == st.initCleanup[1]
       IN  [st EXCEPT
              !.renderers[c.renderer] =
                 [@ EXCEPT !.canvasIn = IF mountRefCurrent /\ @ = "mount"
                                        THEN "none" ELSE @,
                           !.disposed = TRUE],
              !.scenes[c.scene] = {}]

\* the scene effect (lines 60-115); mountRef.current is set while it runs
SceneEffect(st, dims, dbg) ==
  IF dims.width = 0 \/ dims.height = 0
  THEN [st EXCEPT !.initCleanup = <<>>]
  ELSE LET n == Len(st.scenes) + 1
       IN  [st EXCEPT
              !.scenes = Append(@, Lights \cup (IF dbg THEN {DebugObject} ELSE {})),
              !.cameras = Append(@, [aspect |-> Norm(dims.width, dims.height)]),
              !.renderers = Append(@, [disposed |-> FALSE, canvasIn |-> "mount",
                                       size |-> <<dims.width, dims.height>>]),
              !.sceneRef = n,
              !.cameraRef = n,
              !.rendererRef = n,
              !.debugGroupRef = IF dbg THEN n ELSE @,
              !.debugMarker = IF dbg THEN <<>> ELSE @,
              !.initCleanup = <<[renderer |-> n, scene |-> n]>>]

\* the camera effect (lines 181-197)
CameraEffect(st, dims) ==
  IF st.rendererRef # 0 /\ st.cameraRef # 0 /\ dims.width > 0
  THEN [st EXCEPT
          !.renderers[st.rendererRef].size = <<dims.width, dims.height>>,
          !.cameras[st.cameraRef].aspect = Norm(dims.width, dims.height)]
  ELSE st

RemoveOldFilters_HideOnly(st, selected) ==
  LET gone == {k \in DOMAIN st.filtersRef : ~IsSelected(selected, k)}
  IN  [st EXCEPT
         !.groups = [g \in DOMAIN @ |->
                       IF \E k \in gone : st.filtersRef[k] = g
                       THEN [@[g] EXCEPT !.visible = FALSE] ELSE @[g]]]

\* "Remove old filters" (lines 206-211): scene.remove and filtersRef.delete
RemoveOldFilters(st, selected) ==
  LET gone == {k \in DOMAIN st.filtersRef : ~IsSelected(selected, k)}
  IN  [st EXCEPT
         !.scenes[st.sceneRef] = @ \ {GroupObject(st.filtersRef[k]) : k \in gone},
         !.filtersRef = [k \in DOMAIN @ \ gone |-> @[k]]]

\* "Add new filters" (lines 214-239), from the i-th selected filter on.  When
\* FilterModels.createX() throws (st.failing holds the kinds it throws for), the
\* exception leaves the forEach and the effect: st.thrown
RECURSIVE AddNewFilters(_, _, _)
AddNewFilters(st, selected, i) ==
  IF i > Len(selected) THEN st
  ELSE LET id == selected[i]
       IN  IF id \in DOMAIN st.filtersRef \/ id \notin {FILTERS[j] : j \in DOMAIN FILTERS}
           THEN AddNewFilters(st, selected, i + 1)
           ELSE IF id \in st.failing
           THEN [st EXCEPT !.thrown = TRUE]
           ELSE LET g == Len(st.groups) + 1
                    made == [st EXCEPT
                      !.groups = Append(@, [NewGroup(id) EXCEPT !.visible = FALSE]),
                      !.scenes[st.sceneRef] = @ \cup {GroupObject(g)},
                      !.filtersRef = [k \in DOMAIN @ \cup {id} |->
                                        IF k = id THEN g ELSE @[k]]]
                IN  AddNewFilters(made, selected, i + 1)

\* the filter models effect (lines 200-240)
FilterModelsEffect(st, selected) ==
  IF st.sceneRef = 0 THEN st
  ELSE AddNewFilters(RemoveOldFilters(st, selected), selected, 1)

\* the groups that the filter models effect would create for `selected`
GroupsNeeded(st, selected) ==
  IF st.sceneRef = 0 THEN 0
  ELSE Cardinality({i \in 1..Len(selected) :
                      /\ selected[i] \notin DOMAIN st.filtersRef
                      /\ \A j \in 1..(i - 1) : selected[j] # selected[i]})

FrameIds(frames) == {f.id : f \in frames}

\* the id requestAnimationFrame returns: ids are never reused while something
\* still holds them (a pending request, or animationRef)
NewFrameId(frames, ref) ==
  CHOOSE n \in 1..(Cardinality(frames) + 2) :
    /\ n \notin FrameIds(frames)
    /\ n # ref
    /\ \A m \in 1..(n - 1) : m \in FrameIds(frames) \/ m = ref

\* cancelAnimationFrame(id)
CancelAnimationFrame(frames, id) == {f \in frames : f.id # id}

AnimationCleanup_NoCancel(st) == st

\* the cleanup returned by the animation effect (lines 513-517)
AnimationCleanup(st) ==
  IF st.animCleanup /\ st.animationRef # 0
  THEN [st EXCEPT !.pendingFrames = CancelAnimationFrame(@, st.animationRef)]
  ELSE st

\* what `animate` closes over
Closure(st, props) ==
  [detections |-> props.detections,
   selectedFilters |-> props.selectedFilters,
   positionAdjustments |-> props.positionAdjustments,
   dimensions |-> props.dimensions,
   debug |-> props.debug,
   isVideoMirrored |-> props.isVideoMirrored,
   renderer |-> st.rendererRef,
   scene |-> st.sceneRef,
   camera |-> st.cameraRef]

RequestFrame_RefNotSet(st, closure) ==
  LET id == NewFrameId(st.pendingFrames, st.animationRef)
  IN  [st EXCEPT !.pendingFrames = @ \cup {[id |-> id, c |-> closure]}]

\* animationRef.current = requestAnimationFrame(animate)
RequestFrame(st, closure) ==
  LET id == NewFrameId(st.pendingFrames, st.animationRef)
  IN  [st EXCEPT !.pendingFrames = @ \cup {[id |-> id, c |-> closure]},
                 !.animationRef = id]

\* the animation effect (lines 437-511)
AnimationEffect(st, props) ==
  IF st.rendererRef = 0 \/ st.sceneRef = 0 \/ st.cameraRef = 0
  THEN [st EXCEPT !.animCleanup = FALSE]
  ELSE [RequestFrame(st, Closure(st, props)) EXCEPT !.animCleanup = TRUE]

(***************************************************************************)
(* animate (lines 445-509)                                                 *)
(***************************************************************************)
\* Math.sin(time) * 0.02, for some time
Bobs == {Zero, <<1, 50>>}

HideAll_KeepVisible(st) == st

\* "Hide all filters first" (lines 447-449)
HideAll(st) ==
  [st EXCEPT
     !.groups = [g \in DOMAIN @ |->
                   IF \E k \in DOMAIN st.filtersRef : st.filtersRef[k] = g
                   THEN [@[g] EXCEPT !.visible = FALSE] ELSE @[g]]]

\* the detection passes `if (detection.detection.score < 0.7) return`
Qualifies(detection) == ~(detection.score < ScoreThreshold)

\* lines 464-503 for the filters from the i-th on
RECURSIVE PositionFilters(_, _, _, _, _)
PositionFilters(st, c, faceData, bob, i) ==
  IF i > Len(c.selectedFilters) THEN st
  ELSE LET id == c.selectedFilters[i]
       IN  IF id \notin DOMAIN st.filtersRef
           THEN PositionFilters(st, c, faceData, bob, i + 1)
           ELSE LET g == st.filtersRef[id]
                    filterPos == GetFilterPosition(id, faceData)
                    final == FinalPosition(filterPos,
                                           AdjustmentsFor(c.positionAdjustments, id))
                    placed == [st.groups[g] EXCEPT
                      !.position = [x |-> final.x,
                                    y |-> IF id = "hat" THEN RAdd(final.y, bob)
                                                        ELSE final.y,
                                    z |-> final.z],
                      !.rotation = final.rotation,
                      !.scale = final.scale,
                      !.visible = TRUE]
                IN  PositionFilters([st EXCEPT !.groups[g] = placed],
                                    c, faceData, bob, i + 1)

\* updateDebugVisualization (lines 415-434)
UpdateDebugVisualization(st, c, faceData) ==
  IF ~c.debug \/ st.debugGroupRef = 0 THEN st
  ELSE [st EXCEPT !.debugMarker = <<[x |-> faceData.center.x, y |-> faceData.center.y]>>]

\* the landmark points mapFaceTo3D reads a coordinate of (lines 270-311)
PointsRead ==
  {"leftEye", "rightEye", "noseTip", "chin", "forehead", "leftJaw", "rightJaw"}

\* mapFaceTo3D throws a TypeError: a point it reads is undefined
MapFaceTo3DThrows(landmarks) == \E pt \in PointsRead : pt \notin DOMAIN landmarks

\* detections.forEach (lines 453-504) from the j-th detection on; an exception
\* leaves the forEach and animate: st.thrown
RECURSIVE ProcessDetections(_, _, _, _)
ProcessDetections(st, c, bob, j) ==
  IF j > Len(c.detections.list) THEN st
  ELSE LET detection == c.detections.list[j]
       IN  IF ~Qualifies(detection)
           THEN ProcessDetections(st, c, bob, j + 1)
           ELSE IF MapFaceTo3DThrows(detection.landmarks)
           THEN [st EXCEPT !.thrown = TRUE]
           ELSE LET faceData == MapFaceTo3D(detection.landmarks, c.dimensions,
                                            c.isVideoMirrored)
                    dbg == IF j = 1 THEN UpdateDebugVisualization(st, c, faceData)
                                    ELSE st
                IN  ProcessDetections(PositionFilters(dbg, c, faceData, bob, 1),
                                      c, bob, j + 1)

\* what renderer.render(scene, camera) draws
Drawn(st, c) ==
  [renderer |-> c.renderer,
   scene |-> c.scene,
   camera |-> c.camera,
   disposed |-> st.renderers[c.renderer].disposed,
   size |-> st.renderers[c.renderer].size,
   objects |-> st.scenes[c.scene],
   visible |-> {g \in DOMAIN st.groups :
                  GroupObject(g) \in st.scenes[c.scene] /\ st.groups[g].visible}]

\* one call of animate, for the frame request f
AnimateFrame(st, f, bob) ==
  LET c == f.c
      fired == [st EXCEPT !.pendingFrames = @ \ {f}]
      hidden == HideAll(fired)
      placed == IF ~c.detections.isNull /\ Len(c.detections.list) > 0
                THEN ProcessDetections(hidden, c, bob, 1)
                ELSE hidden
      drawn == [placed EXCEPT !.rendered = <<Drawn(placed, c)>>]
  IN  IF placed.thrown THEN placed ELSE RequestFrame(drawn, c)

(***************************************************************************)
(* Filter3DOverlay: the steps                                              *)
(***************************************************************************)
\* the instance state the effects work on
St ==
  [sceneRef |-> sceneRef, rendererRef |-> rendererRef, cameraRef |-> cameraRef,
   debugGroupRef |-> debugGroupRef, filtersRef |-> filtersRef,
   animationRef |-> animationRef, initCleanup |-> initCleanup,
   animCleanup |-> animCleanup, scenes |-> scenes, renderers |-> renderers,
   cameras |-> cameras, groups |-> groups, debugMarker |-> debugMarker,
   pendingFrames |-> pendingFrames, rendered |-> <<>>,
   failing |-> {}, thrown |-> FALSE]

Props(dets, sel, adj, dims, dbg) ==
  [detections |-> dets, selectedFilters |-> sel, positionAdjustments |-> adj,
   dimensions |-> dims, debug |-> dbg, isVideoMirrored |-> isVideoMirrored]

\* Garbage.  A group that neither filtersRef nor a scene references any more,
\* and every group once the instance is unmounted, cannot be reached by the
\* program: its record keeps its kind only.  Likewise the size of a renderer and
\* the aspect of a camera that the refs no longer name.
Reachable(st, g) ==
  \/ \E k \in DOMAIN st.filtersRef : st.filtersRef[k] = g
  \/ \E n \in DOMAIN st.scenes : GroupObject(g) \in st.scenes[n]

Collected(kind) == [NewGroup(kind) EXCEPT !.visible = FALSE]

CollectGroups(st, live) ==
  [g \in DOMAIN st.groups |->
     IF live /\ Reachable(st, g) THEN st.groups[g]
     ELSE Collected(st.groups[g].kind)]

CollectRenderers(st, live) ==
  [r \in DOMAIN st.renderers |->
     IF live /\ r = st.rendererRef THEN st.renderers[r]
     ELSE [st.renderers[r] EXCEPT !.size = <<0, 0>>]]

CollectCameras(st, live) ==
  [c \in DOMAIN st.cameras |->
     IF live /\ c = st.cameraRef THEN st.cameras[c] ELSE [aspect |-> NaN]]

Install(st, live) ==
  /\ sceneRef' = st.sceneRef
  /\ rendererRef' = st.rendererRef
  /\ cameraRef' = st.cameraRef
  /\ debugGroupRef' = st.debugGroupRef
  /\ filtersRef' = st.filtersRef
  /\ animationRef' = st.animationRef
  /\ initCleanup' = st.initCleanup
  /\ animCleanup' = st.animCleanup
  /\ scenes' = st.scenes
  /\ renderers' = CollectRenderers(st, live)
  /\ cameras' = CollectCameras(st, live)
  /\ groups' = CollectGroups(st, live)
  /\ debugMarker' = IF live THEN st.debugMarker ELSE <<>>
  /\ pendingFrames' = st.pendingFrames
  /\ rendered' = st.rendered

instanceVars ==
  <<sceneRef, rendererRef, cameraRef, debugGroupRef, filtersRef, animationRef,
    initCleanup, animCleanup, scenes, renderers, cameras, groups, debugMarker,
    pendingFrames, rendered>>

\* the commit after `dimensions` or `debug` changed: the scene effect and the
\* animation effect re-run, and the camera effect when dimensions changed
SceneCommit(st, props, dimsChanged) ==
  LET cleaned == AnimationCleanup(SceneCleanup(st, TRUE))
      made == SceneEffect(cleaned, props.dimensions, props.debug)
      sized == IF dimsChanged THEN CameraEffect(made, props.dimensions) ELSE made
  IN  AnimationEffect(sized, props)

\* the commit after `selectedFilters` changed
FiltersCommit(st, props) ==
  AnimationEffect(FilterModelsEffect(AnimationCleanup(st), props.selectedFilters),
                  props)

\* the commit after `detections` or `positionAdjustments` changed
PropsCommit(st, props) == AnimationEffect(AnimationCleanup(st), props)

\* App renders <Filter3DOverlay> (videoElement && isModelLoaded && 3d mode): a
\* fresh instance; with zero dimensions every effect returns at its guard.  App
\* does not pass isVideoMirrored, which then is its default, true
Mount ==
  /\ ~mounted
  /\ mounted' = TRUE
  /\ isVideoMirrored' = TRUE
  /\ dimensions' = ZeroDimensions
  /\ sceneRef' = 0
  /\ rendererRef' = 0
  /\ cameraRef' = 0
  /\ debugGroupRef' = 0
  /\ filtersRef' = [k \in {} |-> 0]
  /\ animationRef' = 0
  /\ initCleanup' = <<>>
  /\ animCleanup' = FALSE
  /\ debugMarker' = <<>>
  /\ rendered' = <<>>
  /\ UNCHANGED <<scenes, renderers, cameras, groups, pendingFrames>>
  /\ UNCHANGED <<selectedFilters, positionAdjustments, debug, detections>>

DimensionsValid_DisplayOnly(vs, ds) == ds[1] > 0 /\ ds[2] > 0

DimensionsValid_VideoOnly(vs, ds) == vs[1] > 0 /\ vs[2] > 0

\* videoWidth > 0 && videoHeight > 0 && displayWidth > 0 && displayHeight > 0
DimensionsValid(vs, ds) == vs[1] > 0 /\ vs[2] > 0 /\ ds[1] > 0 /\ ds[2] > 0

\* updateDimensions (lines 133-160), then the commit of setDimensions
UpdateDimensions ==
  /\ mounted
  /\ \E vs \in VideoSizes, ds \in DisplaySizes :
       IF DimensionsValid(vs, ds)
       THEN /\ Len(scenes) < MaxScenes
            /\ dimensions' = Dim(ds[1], ds[2], vs[1], vs[2])
            /\ Install(SceneCommit(St,
                 Props(detections, selectedFilters, positionAdjustments,
                       dimensions', debug), TRUE), TRUE)
       ELSE UNCHANGED <<dimensions, instanceVars>>
  /\ UNCHANGED <<mounted, appVars>>

\* App.handleDebugToggle, then the commit
HandleDebugToggle ==
  /\ debug' = ~debug
  /\ IF mounted
     THEN /\ (dimensions.width # 0 /\ dimensions.height # 0) => Len(scenes) < MaxScenes
          /\ Install(SceneCommit(St,
               Props(detections, selectedFilters, positionAdjustments,
                     dimensions, debug'), FALSE), TRUE)
     ELSE UNCHANGED instanceVars
  /\ UNCHANGED <<mounted, dimensions, selectedFilters, positionAdjustments,
                 detections, isVideoMirrored>>

\* App.handleFilterToggle, then the commit
HandleFilterToggle ==
  \E filter \in Kinds :
    /\ selectedFilters' = ToggleFilter(selectedFilters, filter)
    /\ IF mounted
       THEN /\ Len(groups) + GroupsNeeded(St, selectedFilters') <= MaxGroups
            /\ Install(FiltersCommit(St,
                 Props(detections, selectedFilters', positionAdjustments,
                       dimensions, debug)), TRUE)
       ELSE UNCHANGED instanceVars
    /\ UNCHANGED <<mounted, dimensions, positionAdjustments, debug, detections,
                   isVideoMirrored>>

\* the detections prop changes to one of `inputs`, then the commit
SetDetectionsFrom(inputs) ==
  \E d \in inputs :
    /\ detections' = d
    /\ IF mounted
       THEN Install(PropsCommit(St,
              Props(detections', selectedFilters, positionAdjustments,
                    dimensions, debug)), TRUE)
       ELSE UNCHANGED instanceVars
    /\ UNCHANGED <<mounted, dimensions, selectedFilters, positionAdjustments,
                   debug, isVideoMirrored>>

\* useFaceDetection publishes a list (a new array each time)
SetDetections == SetDetectionsFrom(DetectionInputs)

\* the adjustments the calibration panel hands to App in this specification
OverlayAdjustments ==
  { [IdentityAdjustments EXCEPT !.x = <<1, 10>>, !.scale = <<3, 2>>,
                                !.rotZ = <<1, 5>>] }

\* App.handlePositionChange, then the commit
HandlePositionChange ==
  \E filterId \in {FILTERS[1]}, adj \in OverlayAdjustments :
    /\ positionAdjustments' = PositionChange(positionAdjustments, filterId, adj)
    /\ IF mounted
       THEN Install(PropsCommit(St,
              Props(detections, selectedFilters, positionAdjustments',
                    dimensions, debug)), TRUE)
       ELSE UNCHANGED instanceVars
    /\ UNCHANGED <<mounted, dimensions, selectedFilters, debug, detections,
                   isVideoMirrored>>

\* the browser runs a requested animation frame
Animate ==
  \E f \in pendingFrames, bob \in Bobs :
    /\ Install(AnimateFrame(St, f, bob), TRUE)
    /\ UNCHANGED <<mounted, dimensions, appVars>>

\* every cleanup of the instance runs and its mount div leaves the document
Teardown(st, mountRefCurrent) ==
  LET cleaned == AnimationCleanup(SceneCleanup(st, mountRefCurrent))
  IN  [cleaned EXCEPT
         !.renderers = [r \in DOMAIN @ |->
                          IF @[r].canvasIn = "mount"
                          THEN [@[r] EXCEPT !.canvasIn = "detached"] ELSE @[r]],
         !.initCleanup = <<>>,
         !.animCleanup = FALSE]

\* App stops rendering <Filter3DOverlay>: every cleanup runs.  Whether React has
\* already reset mountRef.current to null when the cleanups run depends on the
\* React version, so both are possible.  The mount div leaves the document.
Unmount ==
  /\ mounted
  /\ mounted' = FALSE
  /\ \E mountRefCurrent \in BOOLEAN : Install(Teardown(St, mountRefCurrent), FALSE)
  /\ UNCHANGED <<dimensions, appVars>>

(***************************************************************************)
(* Initial state                                                           *)
(***************************************************************************)
InitApp ==
  /\ selectedFilters = <<>>
  /\ positionAdjustments = NoAdjustments
  /\ debug = FALSE
  /\ detections = NullDetections
  /\ isVideoMirrored = TRUE

InitOverlay ==
  /\ mounted = FALSE
  /\ dimensions = ZeroDimensions
  /\ sceneRef = 0
  /\ rendererRef = 0
  /\ cameraRef = 0
  /\ debugGroupRef = 0
  /\ filtersRef = [k \in {} |-> 0]
  /\ animationRef = 0
  /\ initCleanup = <<>>
  /\ animCleanup = FALSE
  /\ scenes = <<>>
  /\ renderers = <<>>
  /\ cameras = <<>>
  /\ groups = <<>>
  /\ debugMarker = <<>>
  /\ pendingFrames = {}
  /\ rendered = <<>>

\* what the last step of the hook did: `tornDown` says the detection that settled
\* had been started by an interval that is cleared by now, `wrote` that it
\* replaced state.detections, `called` that it called onDetectionComplete
Hop(op, tornDown, wrote, called) ==
  [op |-> op, tornDown |-> tornDown, wrote |-> wrote, called |-> called]

NoHop == Hop("init", FALSE, FALSE, FALSE)

InitHook ==
  /\ hookMounted = FALSE
  /\ enabled = TRUE
  /\ videoElement = 0
  /\ isModelLoaded = FALSE
  /\ isModelLoading = FALSE
  /\ loadError = FALSE
  /\ hookDetections = NullDetections
  /\ detectionInterval = 0
  /\ isRunningRef = FALSE
  /\ intervals = {}
  /\ inFlight = <<>>
  /\ loadsInFlight = 0
  /\ intervalCleanup = FALSE
  /\ hop = NoHop

\* what the last step of the calibration panel or of the compositor did;
\* `reset` holds the kinds reset since their last slider change, `touched` the
\* kinds a slider was ever moved for
Cop(op, reset, touched) == [op |-> op, reset |-> reset, touched |-> touched]

NoCop == Cop("init", {}, {})

InitCalib ==
  /\ adjustments = [k \in {FILTERS[i] : i \in DOMAIN FILTERS} |-> IdentityAdjustments]
  /\ panelAdjustments = adjustments
  /\ composed = <<>>
  /\ cop = NoCop

\* throttle(callback, delay) has just been called: no call of the throttled
\* function yet.  Date.now() counts from 1970, so it is beyond `delay`
InitThrottle ==
  /\ now = Delay
  /\ lastCall = 0
  /\ timeoutId = 0
  /\ timeouts = {}
  /\ invoked = <<>>

InitPose ==
  /\ resolved = <<>>
  /\ resolvedBefore = <<>>

\* what `uncaught` holds: `from` is "factory" (a FilterModels.createX() threw in
\* the filter models effect), "animate" (animate threw) or "none"
Uncaught(from, kinds) == [from |-> from, kinds |-> kinds]

NoError == Uncaught("none", {})

InitFail == uncaught = NoError

\* what `lop` holds: the step, whether isRunning was true when it began,
\* whether it called callback, whether it changed anything
Lop(op, wasRunning, called, changed) ==
  [op |-> op, wasRunning |-> wasRunning, called |-> called, changed |-> changed]

NoLop == Lop("none", FALSE, FALSE, FALSE)

InitLoop ==
  /\ isRunning = FALSE
  /\ animationFrameId = 0
  /\ loopFrames = {}
  /\ lop = NoLop

InitCanvas ==
  /\ canvasDimensions = [width |-> 0, height |-> 0]
  /\ filterImagesRef = {}
  /\ imageLoads = {}
  /\ canvasDrawn = {}

InitUtil == InitPose /\ InitFail /\ InitThrottle /\ InitLoop /\ InitCanvas

Init == InitApp /\ InitOverlay /\ InitHook /\ InitCalib /\ InitUtil

(***************************************************************************)
(* Spec: Filter3DOverlay under App                                         *)
(***************************************************************************)
Next ==
  \/ Mount /\ UNCHANGED <<hookVars, calibVars, utilVars>>
  \/ UpdateDimensions /\ UNCHANGED <<hookVars, calibVars, utilVars>>
  \/ HandleDebugToggle /\ UNCHANGED <<hookVars, calibVars, utilVars>>
  \/ HandleFilterToggle /\ UNCHANGED <<hookVars, calibVars, utilVars>>
  \/ SetDetections /\ UNCHANGED <<hookVars, calibVars, utilVars>>
  \/ HandlePositionChange /\ UNCHANGED <<hookVars, calibVars, utilVars>>
  \/ Animate /\ UNCHANGED <<hookVars, calibVars, utilVars>>
  \/ Unmount /\ UNCHANGED <<hookVars, calibVars, utilVars>>

Spec == Init /\ [][Next]_vars

(***************************************************************************)
(* Properties of Filter3DOverlay (checked under Spec)                      *)
(***************************************************************************)
\* a frame has just been rendered: the last step was a call of animate
Ticked == rendered # <<>>

\* the list holds a detection with score >= 0.7
HasQualifying(d) ==
  ~d.isNull /\ \E i \in DOMAIN d.list : d.list[i].score >= ScoreThreshold

\* the detection whose transforms the groups end the tick with
LastQualifying(d) ==
  d.list[CHOOSE i \in DOMAIN d.list :
           /\ d.list[i].score >= ScoreThreshold
           /\ \A j \in DOMAIN d.list : d.list[j].score >= ScoreThreshold => j <= i]

\* the groups the program still holds: in filtersRef or in a scene
HeldGroups == {g \in DOMAIN groups : Reachable(St, g)}

\* the first detection of the list that qualifies
FirstQualifying(d) ==
  d.list[CHOOSE i \in DOMAIN d.list :
           /\ d.list[i].score >= ScoreThreshold
           /\ \A j \in DOMAIN d.list : d.list[j].score >= ScoreThreshold => i <= j]

\* how many detections of the list qualify
QualifyingCount(d) ==
  IF d.isNull THEN 0
  ELSE Cardinality({i \in DOMAIN d.list : d.list[i].score >= ScoreThreshold})

\* group g carries the transform animate computes for its kind from the given
\* landmarks and the latest adjustments (the hat's y up to its bob)
TransformOf(g, landmarks) ==
  LET kind == groups[g].kind
      faceData == MapFaceTo3D(landmarks, dimensions, isVideoMirrored)
      final == FinalPosition(GetFilterPosition(kind, faceData),
                             AdjustmentsFor(positionAdjustments, kind))
  IN  /\ groups[g].position.x = final.x
      /\ groups[g].position.z = final.z
      /\ IF kind = "hat"
         THEN \E bob \in Bobs : groups[g].position.y = RAdd(final.y, bob)
         ELSE groups[g].position.y = final.y
      /\ groups[g].rotation = final.rotation
      /\ groups[g].scale = final.scale

\* ... from the detection the groups end the tick with
TransformSet(g) == TransformOf(g, LastQualifying(detections).landmarks)

\* C1 -- visibility gating: when a frame is rendered and the latest detection
\* list is null, empty or holds only detections with score < 0.7, no mesh group
\* is visible (none the program holds, none the frame draws), whatever is
\* selected and whatever was shown before.
C1_VisibilityGating ==
  (Ticked /\ ~HasQualifying(detections)) =>
     /\ \A g \in HeldGroups : ~groups[g].visible
     /\ rendered[1].visible = {}

\* a gated tick over a selected accessory that an earlier tick had placed
C1_Witness ==
  /\ Ticked
  /\ ~detections.isNull
  /\ Len(detections.list) > 0
  /\ ~HasQualifying(detections)
  /\ \E g \in HeldGroups :
       /\ IsSelected(selectedFilters, groups[g].kind)
       /\ GroupObject(g) \in rendered[1].objects
       /\ groups[g].scale # One

\* C2 -- every tick whose latest detection list holds a qualifying detection
\* ends with, for every selected kind, a mesh group of that kind that is a child
\* of the current scene, carries the computed transform and is visible.
C2_SelectedFiltersShown ==
  (Ticked /\ HasQualifying(detections)) =>
     \A i \in DOMAIN selectedFilters :
        \E g \in DOMAIN groups :
           /\ groups[g].kind = selectedFilters[i]
           /\ GroupObject(g) \in scenes[sceneRef]
           /\ groups[g].visible
           /\ TransformSet(g)

\* C3 -- deselection cleanup: at every rendered frame, every mesh group in
\* filtersRef and every mesh group in the scene is of a selected kind (the group
\* of a deselected kind has been removed from both, not hidden).
C3_DeselectionCleanup ==
  Ticked =>
     /\ \A k \in DOMAIN filtersRef : IsSelected(selectedFilters, k)
     /\ \A g \in DOMAIN groups :
          (GroupObject(g) \in rendered[1].objects \/ GroupObject(g) \in scenes[sceneRef])
             => IsSelected(selectedFilters, groups[g].kind)

\* a frame rendered after a kind with a mesh group was deselected, another kind
\* still being shown
C3_Witness ==
  /\ Ticked
  /\ \E g \in DOMAIN groups :
       /\ ~IsSelected(selectedFilters, groups[g].kind)
       /\ groups[g].kind \notin DOMAIN filtersRef
       /\ GroupObject(g) \notin rendered[1].objects
  /\ rendered[1].visible # {}

NoDuplicates(sel) ==
  \A i, j \in DOMAIN sel : i # j => sel[i] # sel[j]

\* C4 -- the selection never holds a filter id twice, and every change of it
\* either removes the toggled filter, which was selected, or appends it, which
\* was not.
C4_NoDuplicateSelection ==
  [][ /\ NoDuplicates(selectedFilters)
      /\ NoDuplicates(selectedFilters')
      /\ selectedFilters' # selectedFilters =>
           \E f \in Kinds :
              \/ /\ IsSelected(selectedFilters, f)
                 /\ ~IsSelected(selectedFilters', f)
                 /\ Len(selectedFilters') = Len(selectedFilters) - 1
              \/ /\ ~IsSelected(selectedFilters, f)
                 /\ selectedFilters' = Append(selectedFilters, f) ]_vars

\* two filters selected, the one selected first deselected and selected again
C4_Witness ==
  /\ Len(selectedFilters) = 2
  /\ selectedFilters[1] = FILTERS[2]
  /\ selectedFilters[2] = FILTERS[1]

\* C7 -- the render loop runs only while Running: a frame is rendered, or is
\* pending, only while the component is mounted with non-zero dimensions, and
\* only with the renderer, scene and camera the refs name, which were made for
\* the current dimensions and are not torn down (the renderer not disposed, its
\* canvas mounted, the scene not cleared); after unmount nothing is pending;
\* and running the cleanups a second time changes nothing.
C7_RenderLoopRunning ==
  /\ Ticked =>
       /\ mounted
       /\ dimensions.width # 0 /\ dimensions.height # 0
       /\ rendered[1].renderer = rendererRef
       /\ rendered[1].scene = sceneRef
       /\ rendered[1].camera = cameraRef
       /\ ~rendered[1].disposed
       /\ rendered[1].size = <<dimensions.width, dimensions.height>>
       /\ Lights \subseteq rendered[1].objects
  /\ \A f \in pendingFrames :
       /\ mounted
       /\ f.c.renderer = rendererRef
       /\ f.c.scene = sceneRef
       /\ f.c.camera = cameraRef
       /\ ~renderers[f.c.renderer].disposed
       /\ renderers[f.c.renderer].canvasIn = "mount"
       /\ Lights \subseteq scenes[f.c.scene]
       /\ f.c.dimensions = dimensions
  /\ ~mounted => pendingFrames = {}
  /\ AnimationCleanup(AnimationCleanup(St)) = AnimationCleanup(St)
  /\ \A b \in BOOLEAN : SceneCleanup(SceneCleanup(St, b), b) = SceneCleanup(St, b)

\* a frame rendered by the second scene, after the first was torn down
C7_Witness ==
  /\ Ticked
  /\ rendered[1].scene = 2
  /\ renderers[1].disposed
  /\ scenes[1] = {}

\* C8 -- after the final teardown every renderer made is disposed and its canvas
\* is out of the document, every scene made is empty (lights and mesh groups
\* removed), and no mesh group is still held in filtersRef.
C8_AllReleasedAfterTeardown ==
  ~mounted =>
     /\ \A r \in DOMAIN renderers :
          renderers[r].disposed /\ renderers[r].canvasIn # "mount"
     /\ \A n \in DOMAIN scenes : scenes[n] = {}
     /\ DOMAIN filtersRef = {}

\* C15 -- stale viewport: while the source width or the source height of the
\* stored dimensions is zero, no tick runs or is scheduled (so nothing is
\* normalized) and no accessory is visible.
C15_ZeroSourceNoAccessory ==
  (dimensions.videoWidth = 0 \/ dimensions.videoHeight = 0) =>
     /\ ~Ticked
     /\ pendingFrames = {}
     /\ \A g \in HeldGroups : ~groups[g].visible

\* the overlay mounted again, its video not ready yet, with a filter selected and
\* a qualifying detection at hand, after an earlier mount had made mesh groups
C15_Witness ==
  /\ mounted
  /\ dimensions.videoWidth = 0
  /\ selectedFilters # <<>>
  /\ HasQualifying(detections)
  /\ Len(groups) > 0

\* C23 -- single render loop: across any sequence of re-runs of the animation
\* effect (detections, selectedFilters, dimensions, debug or positionAdjustments
\* changed), at most one animation-frame callback is pending at any time, and it
\* is the one animationRef names (the one the next cleanup cancels).
C23_SingleRenderLoop ==
  /\ Cardinality(pendingFrames) <= 1
  /\ \A f \in pendingFrames : f.id = animationRef

\* the effect has just re-run, after each of its dependencies has changed
C23_Witness ==
  /\ mounted
  /\ ~Ticked
  /\ \E f \in pendingFrames :
       /\ f.c.debug
       /\ f.c.selectedFilters # <<>>
       /\ HasQualifying(f.c.detections)
       /\ f.c.positionAdjustments # NoAdjustments
       /\ f.c.dimensions.width = 320

AllPositive(d) == d.width > 0 /\ d.height > 0 /\ d.videoWidth > 0 /\ d.videoHeight > 0

DimensionsWellFormed ==
  /\ dimensions = ZeroDimensions \/ AllPositive(dimensions)
  /\ \A f \in pendingFrames : AllPositive(f.c.dimensions)
  /\ Ticked => (AllPositive(dimensions) /\ rendered[1].size[1] > 0 /\ rendered[1].size[2] > 0)

\* C25 -- the dimensions state of a Filter3DOverlay instance is either the
\* initial all-zero value or has width, height, videoWidth and videoHeight all
\* greater than 0; once positive it does not return to zero while the instance
\* lives; every render tick that executes, and every tick that is scheduled,
\* uses positive source and display dimensions.
C25_DimensionsZeroOrPositive ==
  /\ []DimensionsWellFormed
  /\ [][(mounted /\ mounted' /\ AllPositive(dimensions)) => AllPositive(dimensions')]_vars

\* a frame rendered after a second scene was made, at the smaller display size
C25_Witness ==
  /\ Ticked
  /\ Len(scenes) >= 2
  /\ dimensions = Dim(320, 240, 640, 480)

\* C16 -- when the detection list holds more than one qualifying detection, the
\* transforms the mesh groups of the selected kinds carry after the tick are
\* those computed from the first qualifying detection of the list.
C16_FirstQualifyingUsed ==
  (Ticked /\ QualifyingCount(detections) > 1) =>
     \A k \in DOMAIN filtersRef :
        IsSelected(selectedFilters, k) =>
           TransformOf(filtersRef[k], FirstQualifying(detections).landmarks)

(***************************************************************************)
(* useFaceDetection.  The hook is modelled with the options of its         *)
(* interface: `enabled` and `videoElement` may change between renders, and *)
(* onDetectionComplete is given and keeps its identity.  As in the         *)
(* overlay, a state change, the re-render and the flush of the effects are *)
(* one step.                                                               *)
(***************************************************************************)
\* how many video elements the hook is handed in a run
MaxVideos == 2

Videos == 1..MaxVideos

\* what faceapi.detectAllFaces resolves with
RawDetections ==
  { <<>>,
    <<Det(70, FaceLevel)>>,
    <<Det(60, FaceTilted), Det(80, FaceLevel), Det(90, FaceTilted)>> }

ValidDetections_NoSlice(raw) ==
  LET Confident(d) == d.score > MIN_DETECTION_CONFIDENCE
  IN  SelectSeq(raw, Confident)

\* detections.filter(d => d.detection.score > MIN_DETECTION_CONFIDENCE)
\*           .slice(0, MAX_FACES)
ValidDetections(raw) ==
  LET Confident(d) == d.score > MIN_DETECTION_CONFIDENCE
      kept == SelectSeq(raw, Confident)
  IN  SubSeq(kept, 1, Min(MAX_FACES, Len(kept)))

\* the hook instance: its options, state and refs, and the timers it started
Hk ==
  [enabled |-> enabled, videoElement |-> videoElement,
   isModelLoaded |-> isModelLoaded, isModelLoading |-> isModelLoading,
   loadError |-> loadError, detectionInterval |-> detectionInterval,
   intervals |-> intervals, inFlight |-> inFlight,
   loadsInFlight |-> loadsInFlight, intervalCleanup |-> intervalCleanup]

InstallHook(h) ==
  /\ enabled' = h.enabled
  /\ videoElement' = h.videoElement
  /\ isModelLoaded' = h.isModelLoaded
  /\ isModelLoading' = h.isModelLoading
  /\ loadError' = h.loadError
  /\ detectionInterval' = h.detectionInterval
  /\ intervals' = h.intervals
  /\ inFlight' = h.inFlight
  /\ loadsInFlight' = h.loadsInFlight
  /\ intervalCleanup' = h.intervalCleanup

hookInstanceVars ==
  <<enabled, videoElement, isModelLoaded, isModelLoading, loadError,
    detectionInterval, intervals, inFlight, loadsInFlight, intervalCleanup>>

\* if (detectionInterval.current) { clearInterval(...); ... = null }
ClearDetectionInterval(h) ==
  IF h.detectionInterval # 0
  THEN [h EXCEPT !.intervals = {i \in @ : i.id # h.detectionInterval},
                 !.detectionInterval = 0]
  ELSE h

\* the cleanup the interval effect returned, if it returned one
IntervalCleanup(h) ==
  IF h.intervalCleanup THEN ClearDetectionInterval(h) ELSE h

\* the cleanup of the load effect
LoadCleanup(h) == ClearDetectionInterval(h)

\* what detectFaces closes over
DetectClosure(h) ==
  [videoElement |-> h.videoElement, isModelLoaded |-> h.isModelLoaded,
   enabled |-> h.enabled]

\* the id setInterval returns: one no live timer and no running detection names
NewIntervalId(h) ==
  LET used == {i.id : i \in h.intervals} \cup
              {h.inFlight[k].task : k \in DOMAIN h.inFlight}
  IN  CHOOSE n \in 1..(Cardinality(used) + 1) :
        n \notin used /\ \A m \in 1..(n - 1) : m \in used

\* the body of the interval effect
IntervalEffect(h) ==
  IF ~h.enabled \/ ~h.isModelLoaded \/ h.videoElement = 0
  THEN [h EXCEPT !.intervalCleanup = FALSE]
  ELSE LET intervalId == NewIntervalId(h)
       IN  [h EXCEPT !.intervals = @ \cup {[id |-> intervalId, c |-> DetectClosure(h)]},
                     !.detectionInterval = intervalId,
                     !.intervalCleanup = TRUE]

\* loadModels up to its first await
LoadModels(h) ==
  IF h.isModelLoaded \/ h.isModelLoading THEN h
  ELSE [h EXCEPT !.isModelLoading = TRUE, !.loadsInFlight = @ + 1]

\* the body of the load effect
LoadEffect(h) == IF h.enabled THEN LoadModels(h) ELSE h

\* one commit: the cleanups of the effects whose dependencies changed, in
\* declaration order, then their bodies
HookCommit(h, intervalDeps, loadDeps) ==
  LET c1 == IF intervalDeps THEN IntervalCleanup(h) ELSE h
      c2 == IF loadDeps THEN LoadCleanup(c1) ELSE c1
      b1 == IF intervalDeps THEN IntervalEffect(c2) ELSE c2
  IN  IF loadDeps THEN LoadEffect(b1) ELSE b1

\* a commit, and the one that follows when loadModels set isModelLoading
HookCommits(h, intervalDeps, loadDeps) ==
  LET a == HookCommit(h, intervalDeps, loadDeps)
  IN  IF a.isModelLoading # h.isModelLoading THEN HookCommit(a, FALSE, TRUE) ELSE a

\* [detectFaces, enabled, state.isModelLoaded, videoElement]
IntervalDepsChanged(old, new) ==
  \/ old.enabled # new.enabled
  \/ old.isModelLoaded # new.isModelLoaded
  \/ old.videoElement # new.videoElement

\* [enabled, loadModels]
LoadDepsChanged(old, new) ==
  \/ old.enabled # new.enabled
  \/ old.isModelLoaded # new.isModelLoaded
  \/ old.isModelLoading # new.isModelLoading

HookRender(old, new) ==
  HookCommits(new, IntervalDepsChanged(old, new), LoadDepsChanged(old, new))

\* the host component mounts and calls the hook for the first time
HookMount ==
  /\ ~hookMounted
  /\ hop.op = "init"
  /\ hookMounted' = TRUE
  /\ \E e \in BOOLEAN, v \in {0} \cup Videos :
       InstallHook(HookCommits([Hk EXCEPT !.enabled = e, !.videoElement = v],
                               TRUE, TRUE))
  /\ hop' = Hop("mount", FALSE, FALSE, FALSE)
  /\ UNCHANGED <<hookDetections, isRunningRef>>

\* the host re-renders with the other value of `enabled`
SetEnabled ==
  /\ hookMounted
  /\ InstallHook(HookRender(Hk, [Hk EXCEPT !.enabled = ~@]))
  /\ hop' = Hop("enabled", FALSE, FALSE, FALSE)
  /\ UNCHANGED <<hookMounted, hookDetections, isRunningRef>>

\* the host re-renders with another video element, or with none
SetVideoElement ==
  /\ hookMounted
  /\ \E v \in ({0} \cup Videos) \ {videoElement} :
       InstallHook(HookRender(Hk, [Hk EXCEPT !.videoElement = v]))
  /\ hop' = Hop("videoElement", FALSE, FALSE, FALSE)
  /\ UNCHANGED <<hookMounted, hookDetections, isRunningRef>>

\* the three model loads of loadModels resolve
LoadResolve ==
  /\ loadsInFlight > 0
  /\ IF hookMounted
     THEN InstallHook(HookRender(Hk,
            [Hk EXCEPT !.isModelLoaded = TRUE, !.isModelLoading = FALSE,
                       !.loadError = FALSE, !.loadsInFlight = @ - 1]))
     ELSE InstallHook([Hk EXCEPT !.loadsInFlight = @ - 1])
  /\ hop' = Hop("loaded", FALSE, FALSE, FALSE)
  /\ UNCHANGED <<hookMounted, hookDetections, isRunningRef>>

\* one of them rejects
LoadReject ==
  /\ loadsInFlight > 0
  /\ IF hookMounted
     THEN InstallHook(HookRender(Hk,
            [Hk EXCEPT !.isModelLoading = FALSE, !.loadError = TRUE,
                       !.loadsInFlight = @ - 1]))
     ELSE InstallHook([Hk EXCEPT !.loadsInFlight = @ - 1])
  /\ hop' = Hop("loadFailed", FALSE, FALSE, FALSE)
  /\ UNCHANGED <<hookMounted, hookDetections, isRunningRef>>

DetectFacesReturns_NoRunningCheck(c, running) ==
  c.videoElement = 0 \/ ~c.isModelLoaded \/ ~c.enabled

\* the guard of detectFaces
DetectFacesReturns(c, running) ==
  c.videoElement = 0 \/ ~c.isModelLoaded \/ ~c.enabled \/ running

\* a live interval fires: detectFaces up to its await.  `ready` is false when
\* the video is paused, ended or has no data
IntervalTick ==
  \E i \in intervals, ready \in BOOLEAN :
    IF DetectFacesReturns(i.c, isRunningRef)
    THEN /\ hop' = Hop("dropped", FALSE, FALSE, FALSE)
         /\ UNCHANGED <<hookMounted, hookDetections, isRunningRef, hookInstanceVars>>
    ELSE IF ~ready
    THEN /\ hop' = Hop("skipped", FALSE, FALSE, FALSE)
         /\ UNCHANGED <<hookMounted, hookDetections, isRunningRef, hookInstanceVars>>
    ELSE /\ isRunningRef' = TRUE
         /\ inFlight' = Append(inFlight, [task |-> i.id, videoElement |-> i.c.videoElement])
         /\ hop' = Hop("started", FALSE, FALSE, FALSE)
         /\ UNCHANGED <<hookMounted, hookDetections, enabled, videoElement,
                        isModelLoaded, isModelLoading, loadError, detectionInterval,
                        intervals, loadsInFlight, intervalCleanup>>

Without(seq, k) == SubSeq(seq, 1, k - 1) \o SubSeq(seq, k + 1, Len(seq))

\* the interval that started run k of detectFaces has been cleared
TornDown(k) == \A i \in intervals : i.id # inFlight[k].task

\* detectAllFaces resolves: the rest of detectFaces.  setState does nothing
\* once the host is unmounted
DetectResolve ==
  \E k \in DOMAIN inFlight, raw \in RawDetections :
    /\ hookDetections' = IF hookMounted THEN Dets(ValidDetections(raw))
                         ELSE hookDetections
    /\ isRunningRef' = FALSE
    /\ inFlight' = Without(inFlight, k)
    /\ hop' = Hop("resolved", TornDown(k), hookMounted, TRUE)
    /\ UNCHANGED <<hookMounted, enabled, videoElement, isModelLoaded,
                   isModelLoading, loadError, detectionInterval, intervals,
                   loadsInFlight, intervalCleanup>>

DetectReject_NoFinally ==
  \E k \in DOMAIN inFlight :
    /\ inFlight' = Without(inFlight, k)
    /\ hop' = Hop("rejected", TornDown(k), FALSE, FALSE)
    /\ UNCHANGED <<hookMounted, hookDetections, enabled, videoElement,
                   isModelLoaded, isModelLoading, loadError, detectionInterval,
                   intervals, loadsInFlight, intervalCleanup, isRunningRef>>

\* detectAllFaces rejects: catch, finally
DetectReject ==
  \E k \in DOMAIN inFlight :
    /\ isRunningRef' = FALSE
    /\ inFlight' = Without(inFlight, k)
    /\ hop' = Hop("rejected", TornDown(k), FALSE, FALSE)
    /\ UNCHANGED <<hookMounted, hookDetections, enabled, videoElement,
                   isModelLoaded, isModelLoading, loadError, detectionInterval,
                   intervals, loadsInFlight, intervalCleanup>>

\* the host unmounts: both cleanups
HookUnmount ==
  /\ hookMounted
  /\ hookMounted' = FALSE
  /\ InstallHook([LoadCleanup(IntervalCleanup(Hk)) EXCEPT !.intervalCleanup = FALSE])
  /\ hop' = Hop("unmount", FALSE, FALSE, FALSE)
  /\ UNCHANGED <<hookDetections, isRunningRef>>

NextDetect ==
  \/ HookMount /\ UNCHANGED <<appVars, overlayVars, calibVars, utilVars>>
  \/ SetEnabled /\ UNCHANGED <<appVars, overlayVars, calibVars, utilVars>>
  \/ SetVideoElement /\ UNCHANGED <<appVars, overlayVars, calibVars, utilVars>>
  \/ LoadResolve /\ UNCHANGED <<appVars, overlayVars, calibVars, utilVars>>
  \/ LoadReject /\ UNCHANGED <<appVars, overlayVars, calibVars, utilVars>>
  \/ IntervalTick /\ UNCHANGED <<appVars, overlayVars, calibVars, utilVars>>
  \/ DetectResolve /\ UNCHANGED <<appVars, overlayVars, calibVars, utilVars>>
  \/ DetectReject /\ UNCHANGED <<appVars, overlayVars, calibVars, utilVars>>
  \/ HookUnmount /\ UNCHANGED <<appVars, overlayVars, calibVars, utilVars>>

SpecDetect == Init /\ [][NextDetect]_vars

(***************************************************************************)
(* Properties of useFaceDetection (checked under SpecDetect)               *)
(***************************************************************************)
\* C5 -- detection reentrancy guard: at most one run of detectFaces awaits its
\* result at any time; an interval tick that fires while one does returns at
\* once and changes nothing (it starts no detection and leaves nothing behind
\* to run later); a detection starts only in a tick that finds none running.
C5_ReentrancyGuard ==
  [][ /\ Len(inFlight) <= 1
      /\ Len(inFlight') <= 1
      /\ (isRunningRef /\ hop'.op \in {"dropped", "skipped", "started"}) =>
           /\ hop'.op = "dropped"
           /\ UNCHANGED <<hookMounted, hookDetections, isRunningRef, hookInstanceVars>>
      /\ Len(inFlight') > Len(inFlight) =>
           /\ ~isRunningRef
           /\ hop'.op = "started" ]_vars

\* a tick was dropped while a detection was awaiting its result
C5_Witness ==
  /\ hop.op = "dropped"
  /\ isRunningRef
  /\ Len(inFlight) = 1

\* C6 -- after the interval that started it has been cleared, a detection that
\* settles writes no detections and calls no onDetectionComplete.
C6_NoWriteAfterTeardown ==
  hop.tornDown => (~hop.wrote /\ ~hop.called)

\* C26 -- if a detection attempt throws, the published detections are left as
\* they were and isRunningRef is reset to false; after any sequence of
\* successful and failed detections the flag is false whenever no detection is
\* in flight (so a later interval tick can start a new detection).
C26_RejectResetsFlag ==
  /\ [](inFlight = <<>> => ~isRunningRef)
  /\ [][hop'.op = "rejected" =>
          (hookDetections' = hookDetections /\ ~isRunningRef')]_vars

\* a detection attempt has thrown after an earlier one had published a face
C26_Witness ==
  /\ hop.op = "rejected"
  /\ inFlight = <<>>
  /\ ~hookDetections.isNull
  /\ Len(hookDetections.list) > 0

\* C27 -- every detection list useFaceDetection publishes has at most
\* MAX_FACES entries, each with a score strictly greater than
\* MIN_DETECTION_CONFIDENCE, and is a list the detector returned, filtered (not
\* merged with the list published before); every entry of a published list
\* passes the score gate of the overlay.
C27_PublishedListBounded ==
  ~hookDetections.isNull =>
     /\ Len(hookDetections.list) <= MAX_FACES
     /\ \A i \in DOMAIN hookDetections.list :
          /\ hookDetections.list[i].score > MIN_DETECTION_CONFIDENCE
          /\ Qualifies(hookDetections.list[i])
     /\ \E raw \in RawDetections :
          \A i \in DOMAIN hookDetections.list :
             \E j \in DOMAIN raw : raw[j] = hookDetections.list[i]

\* published from a result of three faces: one below the confidence, one kept,
\* one cut off by MAX_FACES
C27_Witness ==
  /\ hop.op = "resolved"
  /\ hookDetections = Dets(<<Det(80, FaceLevel)>>)

\* C30 -- model loading settles: at most one model load is in flight at any
\* time, and when a load attempt has failed the mounted hook is in the error
\* state with no load in flight: the failure itself starts no other attempt.
C30_LoadSettles ==
  /\ loadsInFlight <= 1
  /\ (hop.op = "loadFailed" /\ hookMounted) =>
        (loadError /\ ~isModelLoading /\ loadsInFlight = 0)

(***************************************************************************)
(* FilterCalibration, and the compositor of animate applied to what the    *)
(* panel publishes through App.handlePositionChange.  The panel re-renders *)
(* before the next input event, so handleSliderChange closes over the      *)
(* current adjustments.                                                    *)
(***************************************************************************)
\* the slider moves of a run: <<property, value>>
SliderInputs ==
  { <<"x", <<1, 10>>>>, <<"scale", <<2, 1>>>>, <<"rotZ", <<-1, 2>>>> }

\* the faces the compositor's base transforms are resolved from
CalibFaces == {FaceLevel, FaceTilted}

CalibDimensions == Dim(640, 480, 640, 480)

\* newAdjustments of handleSliderChange
SliderChange(closure, filterId, property, value) ==
  [closure EXCEPT ![filterId] = [@ EXCEPT ![property] = value]]

\* the updater resetFilter passes to setAdjustments
ResetUpdate(prev, filterId) == [prev EXCEPT ![filterId] = IdentityAdjustments]

\* handleSliderChange for a slider of a selected filter
HandleSliderChange ==
  \E i \in DOMAIN selectedFilters, s \in SliderInputs :
    LET filterId == selectedFilters[i]
        newAdjustments == SliderChange(panelAdjustments, filterId, s[1], s[2])
    IN  /\ adjustments' = newAdjustments
        /\ panelAdjustments' = newAdjustments
        /\ positionAdjustments' =
             PositionChange(positionAdjustments, filterId, newAdjustments[filterId])
        /\ composed' = <<>>
        /\ cop' = Cop("slider", cop.reset \ {filterId}, cop.touched \cup {filterId})
        /\ UNCHANGED <<selectedFilters, debug, detections, isVideoMirrored>>

\* resetFilter for the Reset button of a selected filter
ResetFilter ==
  \E i \in DOMAIN selectedFilters :
    LET filterId == selectedFilters[i]
    IN  /\ adjustments' = ResetUpdate(adjustments, filterId)
        /\ panelAdjustments' = adjustments'
        /\ positionAdjustments' =
             PositionChange(positionAdjustments, filterId, IdentityAdjustments)
        /\ composed' = <<>>
        /\ cop' = Cop("reset", cop.reset \cup {filterId}, cop.touched)
        /\ UNCHANGED <<selectedFilters, debug, detections, isVideoMirrored>>

\* the compositor of animate for one kind: `base` is the resolver's transform,
\* `filterPos` the same object once finalPosition has been built from it.  A
\* tick that follows a tick composes from the same adjustments: it reaches no
\* other state and is left out
ComposeTick ==
  /\ cop.op # "compose"
  /\ \E i \in DOMAIN FILTERS, landmarks \in CalibFaces :
       LET kind == FILTERS[i]
           filterPos == GetFilterPosition(kind,
                          MapFaceTo3D(landmarks, CalibDimensions, isVideoMirrored))
           adj == AdjustmentsFor(positionAdjustments, kind)
       IN  /\ composed' = <<[kind |-> kind, base |-> filterPos, filterPos |-> filterPos,
                             adjustments |-> adj,
                             finalPosition |-> FinalPosition(filterPos, adj)]>>
           /\ cop' = Cop("compose", cop.reset, cop.touched)
           /\ UNCHANGED <<adjustments, panelAdjustments, appVars>>

NextCalib ==
  \/ HandleFilterToggle /\ UNCHANGED <<hookVars, calibVars, utilVars>>
  \/ HandleSliderChange /\ UNCHANGED <<overlayVars, hookVars, utilVars>>
  \/ ResetFilter /\ UNCHANGED <<overlayVars, hookVars, utilVars>>
  \/ ComposeTick /\ UNCHANGED <<overlayVars, hookVars, utilVars>>

SpecCalib == Init /\ [][NextCalib]_vars

\* FilterCalibration when React batches the state updates of several handler
\* calls into one re-render: every call of the batch runs the handlers of the
\* same render, so handleSliderChange spreads the `adjustments` of that render
\* (panelAdjustments), while the updater of resetFilter gets the queued state.
\* `adjustments` is the state the queue of setAdjustments calls amounts to.
SliderChangeInBatch ==
  \E i \in DOMAIN selectedFilters, s \in SliderInputs :
    LET filterId == selectedFilters[i]
        newAdjustments == SliderChange(panelAdjustments, filterId, s[1], s[2])
    IN  /\ adjustments' = newAdjustments
        /\ positionAdjustments' =
             PositionChange(positionAdjustments, filterId, newAdjustments[filterId])
        /\ composed' = <<>>
        /\ cop' = Cop("slider", cop.reset \ {filterId}, cop.touched \cup {filterId})
        /\ UNCHANGED <<panelAdjustments, selectedFilters, debug, detections,
                       isVideoMirrored>>

ResetInBatch ==
  \E i \in DOMAIN selectedFilters :
    LET filterId == selectedFilters[i]
    IN  /\ adjustments' = ResetUpdate(adjustments, filterId)
        /\ positionAdjustments' =
             PositionChange(positionAdjustments, filterId, IdentityAdjustments)
        /\ composed' = <<>>
        /\ cop' = Cop("reset", cop.reset \cup {filterId}, cop.touched)
        /\ UNCHANGED <<panelAdjustments, selectedFilters, debug, detections,
                       isVideoMirrored>>

\* the re-render that ends a batch: the handlers close over the new state
PanelRender ==
  /\ panelAdjustments # adjustments
  /\ panelAdjustments' = adjustments
  /\ cop' = Cop("render", cop.reset, cop.touched)
  /\ UNCHANGED <<adjustments, composed, appVars>>

NextPanel ==
  \/ HandleFilterToggle /\ UNCHANGED <<hookVars, calibVars, utilVars>>
  \/ HandleSliderChange /\ UNCHANGED <<overlayVars, hookVars, utilVars>>
  \/ ResetFilter /\ UNCHANGED <<overlayVars, hookVars, utilVars>>
  \/ SliderChangeInBatch /\ UNCHANGED <<overlayVars, hookVars, utilVars>>
  \/ ResetInBatch /\ UNCHANGED <<overlayVars, hookVars, utilVars>>
  \/ PanelRender /\ UNCHANGED <<overlayVars, hookVars, utilVars>>

SpecPanel == Init /\ [][NextPanel]_vars

\* the compositor as a function of its inputs: any adjustment a caller of
\* Filter3DOverlay may pass as positionAdjustments[kind], or none
Adj(p, s, r) ==
  [x |-> p, y |-> RNeg(p), z |-> RDiv(p, R(2)), scale |-> s,
   rotX |-> r, rotY |-> RNeg(r), rotZ |-> RDiv(r, R(2))]

AdjustmentValues ==
  {Adj(p, s, r) : p \in {Zero, <<1, 10>>, <<-1, 2>>},
                  s \in {Zero, One, <<3, 2>>},
                  r \in {Zero, <<1, 5>>}}

AdjustmentInputs ==
  {NoAdjustments} \cup
  {[k \in {FILTERS[i] : i \in DOMAIN FILTERS} |-> a] : a \in AdjustmentValues}

InitCompose ==
  /\ selectedFilters = <<>>
  /\ positionAdjustments \in AdjustmentInputs
  /\ debug = FALSE
  /\ detections = NullDetections
  /\ isVideoMirrored = TRUE
  /\ InitOverlay
  /\ InitHook
  /\ InitCalib
  /\ InitUtil

NextCompose == ComposeTick /\ UNCHANGED <<overlayVars, hookVars, utilVars>>

SpecCompose == InitCompose /\ [][NextCompose]_vars

StatedAdjustment(c) ==
  IF c.kind \in DOMAIN positionAdjustments THEN positionAdjustments[c.kind]
  ELSE IdentityAdjustments

\* position = base + (x, y, z), rotation = base + (rotX, rotY, rotZ), and the
\* base transform is left as the resolver returned it
OffsetsComposed(c, a) ==
  /\ c.finalPosition.x = RAdd(c.base.x, a.x)
  /\ c.finalPosition.y = RAdd(c.base.y, a.y)
  /\ c.finalPosition.z = RAdd(c.base.z, a.z)
  /\ c.finalPosition.rotation.x = AngleAdd(c.base.rotation.x, a.rotX)
  /\ c.finalPosition.rotation.y = AngleAdd(c.base.rotation.y, a.rotY)
  /\ c.finalPosition.rotation.z = AngleAdd(c.base.rotation.z, a.rotZ)
  /\ c.filterPos = c.base

KindsChanged ==
  {k \in DOMAIN positionAdjustments \cup DOMAIN positionAdjustments' :
     AdjustmentsFor(positionAdjustments', k) # AdjustmentsFor(positionAdjustments, k)}

\* C28 -- selection and calibration are independent (checked under SpecCalib):
\* a step that changes selectedFilters leaves positionAdjustments as it is and
\* a step that changes positionAdjustments leaves selectedFilters as it is and
\* changes the adjustment of one kind only; no step removes a kind's stored
\* adjustment, and a composed transform uses the adjustment stored for its kind
\* (so a kind deselected and selected again is composed with the calibration it
\* had).
C28_SelectionCalibrationIndependent ==
  [][ /\ selectedFilters' # selectedFilters => positionAdjustments' = positionAdjustments
      /\ positionAdjustments' # positionAdjustments =>
            /\ selectedFilters' = selectedFilters
            /\ Cardinality(KindsChanged) = 1
      /\ DOMAIN positionAdjustments \subseteq DOMAIN positionAdjustments'
      /\ cop'.op = "compose" =>
            composed'[1].adjustments =
              AdjustmentsFor(positionAdjustments', composed'[1].kind) ]_vars

\* a kind composed with the calibration it was given while another kind has
\* one too, after the kind was deselected and selected again
C28_Witness ==
  /\ cop.op = "compose"
  /\ Len(selectedFilters) = 2
  /\ selectedFilters[2] = FILTERS[1]
  /\ composed[1].kind = FILTERS[1]
  /\ composed[1].adjustments # IdentityAdjustments
  /\ FILTERS[1] \in DOMAIN positionAdjustments
  /\ FILTERS[2] \in DOMAIN positionAdjustments
  /\ positionAdjustments[FILTERS[2]] # IdentityAdjustments
  /\ positionAdjustments[FILTERS[2]] # positionAdjustments[FILTERS[1]]

\* the kinds the panel has adjusted (a slider moved, or reset)
Adjusted == cop.touched \cup cop.reset

\* C29 -- panel and App agree (checked under SpecPanel): after any sequence of
\* slider changes and resets, including changes handled before the panel
\* re-renders, for every kind that has been adjusted the adjustment App stores
\* for the render loop (positionAdjustments[kind]) equals the adjustment the
\* panel holds and displays (adjustments[kind]).
C29_PanelMatchesApp ==
  \A k \in Adjusted :
     /\ k \in DOMAIN positionAdjustments
     /\ positionAdjustments[k] = adjustments[k]

FaceEyesStacked ==
  [leftEye |-> Pt(150, 140), rightEye |-> Pt(150, 170),
   noseTip |-> Pt(160, 180), noseTop |-> Pt(155, 150),
   chin |-> Pt(150, 250), forehead |-> Pt(150, 100),
   leftJaw |-> Pt(90, 170), rightJaw |-> Pt(210, 170),
   upperLip |-> Pt(160, 200)]

\* eye-outer points that coincide
FaceEyesCoincide ==
  [leftEye |-> Pt(150, 150), rightEye |-> Pt(150, 150),
   noseTip |-> Pt(150, 160), noseTop |-> Pt(150, 140),
   chin |-> Pt(150, 250), forehead |-> Pt(150, 100),
   leftJaw |-> Pt(90, 170), rightJaw |-> Pt(210, 170),
   upperLip |-> Pt(150, 180)]

PoseFaces == {FaceLevel, FaceTilted, FaceEyesStacked, FaceEyesCoincide}

\* the video shown at its own size, and a larger video shown smaller
PoseDimensions == {Dim(640, 480, 640, 480), Dim(320, 180, 1280, 720)}

Resolution_Smoothed(landmarks, dims, mirrored) ==
  LET faceData == MapFaceTo3D(landmarks, dims, mirrored)
      Smooth(k, p) ==
        IF resolved = <<>> THEN p
        ELSE [p EXCEPT !.x = RDiv(RAdd(@, resolved[1].positions[k].x), R(2))]
  IN  [landmarks |-> landmarks, dimensions |-> dims, isVideoMirrored |-> mirrored,
       faceData |-> faceData,
       positions |-> [k \in {FILTERS[i] : i \in DOMAIN FILTERS} |->
                        Smooth(k, GetFilterPosition(k, faceData))]]

\* const faceData = mapFaceTo3D(...), then getFilterPosition(id, faceData) for
\* every filter id
Resolution(landmarks, dims, mirrored) ==
  LET faceData == MapFaceTo3D(landmarks, dims, mirrored)
  IN  [landmarks |-> landmarks, dimensions |-> dims, isVideoMirrored |-> mirrored,
       faceData |-> faceData,
       positions |-> [k \in {FILTERS[i] : i \in DOMAIN FILTERS} |->
                        GetFilterPosition(k, faceData)]]

\* one tick's resolution
Resolve ==
  \E landmarks \in PoseFaces, dims \in PoseDimensions, mirrored \in BOOLEAN :
    /\ resolved' = <<Resolution(landmarks, dims, mirrored)>>
    /\ resolvedBefore' = resolved
    /\ UNCHANGED <<appVars, overlayVars>>

NextPose ==
  \/ Resolve /\ UNCHANGED <<hookVars, calibVars, failVars, throttleVars, loopVars, canvasVars>>
  \/ HandleFilterToggle /\ UNCHANGED <<hookVars, calibVars, utilVars>>
  \/ HandlePositionChange /\ UNCHANGED <<hookVars, calibVars, utilVars>>

SpecPose == Init /\ [][NextPose]_vars

(***************************************************************************)
(* Properties of the resolver (checked under SpecPose)                     *)
(***************************************************************************)
\* the last two resolutions had the same landmarks and dimensions
SameFace ==
  /\ resolved # <<>>
  /\ resolvedBefore # <<>>
  /\ resolved[1].landmarks = resolvedBefore[1].landmarks
  /\ resolved[1].dimensions = resolvedBefore[1].dimensions

\* ... and one was mirrored, the other not
MirrorPair == SameFace /\ resolved[1].isVideoMirrored # resolvedBefore[1].isVideoMirrored

\* ... and the same mirroring flag
SameInputs == SameFace /\ resolved[1].isVideoMirrored = resolvedBefore[1].isVideoMirrored

\* angle a is -b
Negated(a, b) ==
  /\ a.rad = <<-b.rad[1], b.rad[2]>>
  /\ a.pi = <<-b.pi[1], b.pi[2]>>
  /\ a.at = <<-b.at[1], b.at[2]>>

\* C12 -- mirrored x inversion: for the same landmarks and source dimensions the
\* normalized face center x with isVideoMirrored = true is the negation of the
\* one with isVideoMirrored = false; the normalized y is the same in both modes
\* and is -((noseTip.y / videoHeight) * 2 - 1), inverted relative to pixel y.
C12_MirroredXInversion ==
  MirrorPair =>
     LET a == resolved[1].faceData
         b == resolvedBefore[1].faceData
     IN  /\ a.center.x = <<-b.center.x[1], b.center.x[2]>>
         /\ a.center.y = b.center.y
         /\ a.center.y = Norm(a.videoHeight - 2 * a.landmarks.noseTip.y, a.videoHeight)

C14_DegenerateDefaults ==
  (/\ resolved # <<>>
   /\ resolved[1].landmarks.leftEye.x = resolved[1].landmarks.rightEye.x)
    => /\ resolved[1].faceData.rotation.z = AngleZero
       /\ resolved[1].faceData.rotation.y = AngleZero

Mustache == resolved[1].positions["mustache"]

\* its x is the normalized nose-tip x and its scale the head pose scale times a
\* multiplier below 1
MustacheXAndScale ==
  LET r == resolved[1]
  IN  /\ Mustache.x = Norm(2 * r.landmarks.noseTip.x - r.faceData.videoWidth,
                          r.faceData.videoWidth)
      /\ Mustache.scale = RMul(r.faceData.scale, <<3, 5>>)
      /\ RLess(<<3, 5>>, One)

\* C22 -- mustache anchor: for every landmark set the mustache's base y is the
\* normalized midpoint between the nose-tip landmark and the upper-lip landmark,
\* its x is the normalized nose-tip x, and its scale is the head pose scale
\* times a multiplier below 1.
C22_MustacheAnchor ==
  resolved # <<>> =>
     LET r == resolved[1]
     IN  /\ Mustache.y = NormY(RDiv(R(r.landmarks.noseTip.y + r.landmarks.upperLip.y),
                                    R(2)),
                               r.faceData.videoHeight)
         /\ MustacheXAndScale

(***************************************************************************)
(* Filter3DOverlay when a collaborator fails: a FilterModels factory that  *)
(* throws, a detection whose landmarks lack a point.  Neither the filter   *)
(* models effect nor animate has a try/catch.  An exception that leaves an *)
(* effect reaches React, which unmounts the tree the component is in (up   *)
(* to the nearest error boundary; the sources define none); an exception   *)
(* that leaves animate reaches the browser, which reports it.              *)
(***************************************************************************)
\* landmarks whose nose has no tip: landmarks.getNose()[3] is undefined
FaceNoNoseTip == [pt \in DOMAIN FaceLevel \ {"noseTip"} |-> FaceLevel[pt]]

\* detection lists with a qualifying detection mapFaceTo3D throws for
MalformedInputs ==
  { Dets(<<Det(80, FaceNoNoseTip)>>),
    Dets(<<Det(80, FaceLevel), Det(90, FaceNoNoseTip)>>) }

\* React still renders the tree of the overlay
Alive == uncaught.from # "factory"

\* the step threw nothing
NoThrow ==
  /\ uncaught' = NoError
  /\ UNCHANGED <<hookVars, calibVars, poseVars, throttleVars, loopVars,
               canvasVars>>

SetMalformedDetections == SetDetectionsFrom(MalformedInputs)

\* the browser runs a requested animation frame; animate may throw, and then
\* has neither rendered nor requested the next frame
AnimateOrThrow ==
  /\ Animate
  /\ uncaught' = IF rendered' = <<>> THEN Uncaught("animate", {}) ELSE NoError
  /\ UNCHANGED <<hookVars, calibVars, poseVars, throttleVars, loopVars,
               canvasVars>>

\* App.handleFilterToggle, then a commit in which a factory the filter models
\* effect calls throws: the rest of the effect is skipped, the other effects of
\* the commit run, then React unmounts the tree
FactoryThrows ==
  \E filter \in Kinds, failing \in (SUBSET Kinds) \ {{}}, mountRefCurrent \in BOOLEAN :
    LET committed == FiltersCommit([St EXCEPT !.failing = failing],
                       Props(detections, ToggleFilter(selectedFilters, filter),
                             positionAdjustments, dimensions, debug))
    IN  /\ mounted
        /\ committed.thrown
        /\ Len(committed.groups) <= MaxGroups
        /\ selectedFilters' = ToggleFilter(selectedFilters, filter)
        /\ mounted' = FALSE
        /\ Install(Teardown(committed, mountRefCurrent), FALSE)
        /\ uncaught' = Uncaught("factory", failing)
        /\ UNCHANGED <<dimensions, positionAdjustments, debug, detections,
                       isVideoMirrored>>
        /\ UNCHANGED <<hookVars, calibVars, poseVars, throttleVars, loopVars,
               canvasVars>>

NextFail ==
  \/ Alive /\ Mount /\ NoThrow
  \/ Alive /\ UpdateDimensions /\ NoThrow
  \/ Alive /\ HandleFilterToggle /\ NoThrow
  \/ Alive /\ SetDetections /\ NoThrow
  \/ Alive /\ SetMalformedDetections /\ NoThrow
  \/ Alive /\ AnimateOrThrow
  \/ Alive /\ FactoryThrows

SpecFail == Init /\ [][NextFail]_vars

\* the kinds that are selected and whose factory did not fail
OtherKinds == {selectedFilters[i] : i \in DOMAIN selectedFilters} \ uncaught.kinds

\* C17 -- missing asset (checked under SpecFail): when the factory of a selected
\* kind has failed, the failure having been surfaced, the render loop keeps
\* running (the overlay is mounted and a frame is pending) and every other
\* selected kind has its mesh group in filtersRef and in the scene.
C17_FactoryFailureIsolated ==
  uncaught.from = "factory" =>
     /\ mounted
     /\ pendingFrames # {}
     /\ \A k \in OtherKinds :
          /\ k \in DOMAIN filtersRef
          /\ sceneRef # 0
          /\ GroupObject(filtersRef[k]) \in scenes[sceneRef]

\* C18 -- no failure is fatal to the render loop (checked under SpecFail): after
\* a tick whose transform computation threw, the loop has its next frame
\* scheduled, and no accessory is shown.
C18_LoopSurvivesThrow ==
  uncaught.from = "animate" =>
     /\ pendingFrames # {}
     /\ \A g \in HeldGroups : ~groups[g].visible

(***************************************************************************)
(* throttle (utils/modelLoader.tsx).  The function throttle returns is      *)
(* called at any time with any arguments; a timeout that is due fires at    *)
(* its due time or later, as the event loop gets to it.                     *)
(***************************************************************************)
\* the arguments of a call of the throttled function
CallArgs == {"a", "b"}

\* callback(...args)
Callback(calls, at, args) == Append(calls, [at |-> at, args |-> args])

\* the id window.setTimeout returns: a positive integer no pending timeout has
NewTimeoutId(pending) ==
  CHOOSE n \in 1..(Cardinality(pending) + 1) :
    /\ \A t \in pending : t.id # n
    /\ \A m \in 1..(n - 1) : \E t \in pending : t.id = m

\* time passes
ClockTick ==
  /\ now < MaxTime
  /\ now' = now + 1
  /\ UNCHANGED <<lastCall, timeoutId, timeouts, invoked>>

\* the function throttle returned, called with args
ThrottledCall ==
  \E args \in CallArgs :
    LET timeSinceLastCall == now - lastCall
    IN  IF timeSinceLastCall >= Delay
        THEN /\ lastCall' = now
             /\ invoked' = Callback(invoked, now, args)
             /\ UNCHANGED <<now, timeoutId, timeouts>>
        ELSE IF timeoutId = 0
        THEN LET remainingTime == Delay - timeSinceLastCall
                 id == NewTimeoutId(timeouts)
             IN  /\ timeouts' = timeouts \cup
                                  {[id |-> id, due |-> now + remainingTime, args |-> args]}
                 /\ timeoutId' = id
                 /\ UNCHANGED <<now, lastCall, invoked>>
        ELSE UNCHANGED throttleVars

\* the function passed to window.setTimeout runs
TimeoutFires ==
  \E t \in timeouts :
    /\ now >= t.due
    /\ lastCall' = now
    /\ timeoutId' = 0
    /\ invoked' = Callback(invoked, now, t.args)
    /\ timeouts' = timeouts \ {t}
    /\ UNCHANGED now

NextThrottle ==
  \/ ClockTick /\ UNCHANGED <<appVars, overlayVars, hookVars, calibVars, poseVars, failVars, loopVars, canvasVars>>
  \/ ThrottledCall /\ UNCHANGED <<appVars, overlayVars, hookVars, calibVars, poseVars, failVars, loopVars, canvasVars>>
  \/ TimeoutFires /\ UNCHANGED <<appVars, overlayVars, hookVars, calibVars, poseVars, failVars, loopVars, canvasVars>>

SpecThrottle == Init /\ [][NextThrottle]_vars

\* C20 -- throttle(callback, delay): two consecutive calls of callback are never
\* less than `delay` ms apart, whatever the calls of the throttled function and
\* whenever the scheduled timeout fires.
C20_ThrottleSpacing ==
  \A i \in 1..(Len(invoked) - 1) : invoked[i + 1].at - invoked[i].at >= Delay

(***************************************************************************)
(* createAnimationLoop (utils/modelLoader.tsx).  callback may itself call  *)
(* start() and stop() of the loop it is the callback of.                   *)
(***************************************************************************)
\* how many requests the browser may hold
MaxLoopFrames == 3

\* the closure state of one loop
Loop == [isRunning |-> isRunning, animationFrameId |-> animationFrameId,
         frames |-> loopFrames]

\* animationFrameId = requestAnimationFrame(loop)
LoopRequest(l) ==
  LET id == NewFrameId(l.frames, l.animationFrameId)
  IN  [l EXCEPT !.frames = @ \cup {[id |-> id]}, !.animationFrameId = id]

\* start (lines 78-83)
LoopStart(l) ==
  IF l.isRunning THEN l
  ELSE LoopRequest([l EXCEPT !.isRunning = TRUE])

\* stop (lines 84-91)
LoopStop(l) ==
  LET stopped == [l EXCEPT !.isRunning = FALSE]
  IN  IF stopped.animationFrameId # 0
      THEN [stopped EXCEPT
              !.frames = CancelAnimationFrame(@, stopped.animationFrameId),
              !.animationFrameId = 0]
      ELSE stopped

\* what callback may do with the loop: nothing, or calls of stop and start
CallbackScripts == {<<>>, <<"stop">>, <<"start">>, <<"stop", "start">>}

RECURSIVE RunCallback(_, _, _)
RunCallback(l, script, i) ==
  IF i > Len(script) THEN l
  ELSE RunCallback(IF script[i] = "start" THEN LoopStart(l) ELSE LoopStop(l),
                   script, i + 1)

\* loop (lines 70-75), run for the request f
LoopFn(l, f, script) ==
  LET fired == [l EXCEPT !.frames = @ \ {f}]
  IN  IF ~fired.isRunning THEN fired
      ELSE LoopRequest(RunCallback(fired, script, 1))

InstallLoop(l) ==
  /\ Cardinality(l.frames) <= MaxLoopFrames
  /\ isRunning' = l.isRunning
  /\ animationFrameId' = l.animationFrameId
  /\ loopFrames' = l.frames

Start ==
  /\ InstallLoop(LoopStart(Loop))
  /\ lop' = Lop("start", isRunning, FALSE, LoopStart(Loop) # Loop)

Stop ==
  /\ InstallLoop(LoopStop(Loop))
  /\ lop' = Lop("stop", isRunning, FALSE, LoopStop(Loop) # Loop)

\* the browser runs a request of the loop
LoopFrameFires ==
  \E f \in loopFrames, script \in CallbackScripts :
    /\ InstallLoop(LoopFn(Loop, f, script))
    /\ lop' = Lop("frame", isRunning, isRunning, TRUE)

NextLoop ==
  \/ Start /\ UNCHANGED <<appVars, overlayVars, hookVars, calibVars, poseVars, failVars, throttleVars, canvasVars>>
  \/ Stop /\ UNCHANGED <<appVars, overlayVars, hookVars, calibVars, poseVars, failVars, throttleVars, canvasVars>>
  \/ LoopFrameFires /\ UNCHANGED <<appVars, overlayVars, hookVars, calibVars, poseVars, failVars, throttleVars, canvasVars>>

SpecLoop == Init /\ [][NextLoop]_vars

\* C24 -- createAnimationLoop (checked under SpecLoop): for any sequence of
\* start() and stop() calls, including calls made from inside the callback, at
\* most one animation-frame request of the loop is outstanding at any time,
\* start() while running and stop() while stopped change nothing, and the
\* callback is not invoked while the loop is stopped.
C24_LoopSingleRequest ==
  /\ Cardinality(loopFrames) <= 1
  /\ (lop.op = "start" /\ lop.wasRunning) => ~lop.changed
  /\ (lop.op = "stop" /\ ~lop.wasRunning) => ~lop.changed
  /\ (lop.op = "frame" /\ lop.called) => lop.wasRunning

(***************************************************************************)
(* FilterOverlay, the 2D overlay (components/FilterOverlay.tsx), under the *)
(* App that renders it (components/App.tsx) with a video element, the      *)
(* detections of useFaceDetection and its selectedFilters.  The canvas and *)
(* its 2D context exist from the first commit on.                          *)
(***************************************************************************)
\* what updateDimensions may compute: <<width, height>>
CanvasSizes == {<<0, 0>>, <<640, 480>>, <<320, 240>>}

\* the lists App may pass as detections
CanvasDetectionInputs ==
  {NullDetections, Dets(<<>>), Dets(<<Det(80, FaceLevel)>>),
   Dets(<<Det(90, FaceTilted)>>)}

\* the state of the instance
Cv == [dimensions |-> canvasDimensions, filterImagesRef |-> filterImagesRef,
       imageLoads |-> imageLoads, drawn |-> canvasDrawn]

\* the effect that preloads the filter images (lines 33-78): a load starts for
\* every selected filter the map does not have
PreloadEffect(cv, selected) ==
  [cv EXCEPT !.imageLoads =
     @ \cup ({selected[i] : i \in DOMAIN selected} \ cv.filterImagesRef)]

\* the effect that draws the filters (lines 111-184)
DrawEffect(cv, dets, selected) ==
  IF dets.isNull \/ Len(dets.list) = 0
     \/ cv.dimensions.width = 0 \/ cv.dimensions.height = 0
  THEN cv
  ELSE [cv EXCEPT !.drawn =
          {[kind |-> selected[i], landmarks |-> dets.list[j].landmarks] :
             i \in {k \in DOMAIN selected : selected[k] \in cv.filterImagesRef},
             j \in DOMAIN dets.list}]

InstallCanvas(cv) ==
  /\ canvasDimensions' = cv.dimensions
  /\ filterImagesRef' = cv.filterImagesRef
  /\ imageLoads' = cv.imageLoads
  /\ canvasDrawn' = cv.drawn

\* useFaceDetection publishes detections; the draw effect runs
CanvasSetDetections ==
  \E d \in CanvasDetectionInputs :
    /\ detections' = d
    /\ InstallCanvas(DrawEffect(Cv, d, selectedFilters))
    /\ UNCHANGED <<selectedFilters, positionAdjustments, debug, isVideoMirrored>>

\* App.handleFilterToggle (App.tsx lines 73-84); the preload and the draw
\* effects run
CanvasFilterToggle ==
  \E filter \in Kinds :
    /\ selectedFilters' = ToggleFilter(selectedFilters, filter)
    /\ InstallCanvas(DrawEffect(PreloadEffect(Cv, selectedFilters'),
                                detections, selectedFilters'))
    /\ UNCHANGED <<positionAdjustments, debug, detections, isVideoMirrored>>

\* img.onload: the image enters the map; nothing is drawn
ImageLoaded ==
  \E k \in imageLoads :
    /\ filterImagesRef' = filterImagesRef \cup {k}
    /\ imageLoads' = imageLoads \ {k}
    /\ UNCHANGED <<canvasDimensions, canvasDrawn, appVars>>

\* img.onerror: the rejection is caught and logged
ImageFailed ==
  \E k \in imageLoads :
    /\ imageLoads' = imageLoads \ {k}
    /\ UNCHANGED <<canvasDimensions, filterImagesRef, canvasDrawn, appVars>>

\* updateDimensions (lines 84-93) on loadedmetadata / resize: a new dimensions
\* object; a change of the canvas's width or height attribute clears the
\* canvas; the draw effect runs
CanvasUpdateDimensions ==
  \E size \in CanvasSizes :
    /\ IF size[1] > 0 /\ size[2] > 0
       THEN LET d == [width |-> size[1], height |-> size[2]]
                sized == [Cv EXCEPT !.dimensions = d,
                                    !.drawn = IF d = canvasDimensions THEN @ ELSE {}]
            IN  InstallCanvas(DrawEffect(sized, detections, selectedFilters))
       ELSE UNCHANGED canvasVars
    /\ UNCHANGED appVars

NextCanvas ==
  \/ CanvasSetDetections /\ UNCHANGED <<overlayVars, hookVars, calibVars, poseVars, failVars, throttleVars, loopVars>>
  \/ CanvasFilterToggle /\ UNCHANGED <<overlayVars, hookVars, calibVars, poseVars, failVars, throttleVars, loopVars>>
  \/ ImageLoaded /\ UNCHANGED <<overlayVars, hookVars, calibVars, poseVars, failVars, throttleVars, loopVars>>
  \/ ImageFailed /\ UNCHANGED <<overlayVars, hookVars, calibVars, poseVars, failVars, throttleVars, loopVars>>
  \/ CanvasUpdateDimensions /\ UNCHANGED <<overlayVars, hookVars, calibVars, poseVars, failVars, throttleVars, loopVars>>

SpecCanvas == Init /\ [][NextCanvas]_vars

\* C21 -- 2D overlay visibility (checked under SpecCanvas): when the detection
\* list passed to FilterOverlay is null or empty, the canvas shows no accessory
\* drawing (accessories drawn before are hidden, not left at their stale
\* positions).
C21_NoFaceNoDrawing ==
  (detections.isNull \/ Len(detections.list) = 0) => canvasDrawn = {}

=============================================================================
